---------------------------- MODULE Spec2Model ----------------------------
(***************************************************************************)
(* A model of the weather / document question answering pipeline:          *)
(*   ai_pipeline.py        AIPipeline (the LangGraph workflow)             *)
(*   weather_service.py    WeatherService                                  *)
(*   euriai_service.py     EuriaiService (completion calls and fallbacks)  *)
(*   evaluation_service.py EvaluationService                               *)
(*   pdf_processor.py      PDFProcessor.chunk_text                         *)
(*   vector_store.py       VectorStore                                     *)
(*                                                                         *)
(* Python str values are TLA+ strings, handled with Len, SubSeq and \o.    *)
(* The module is written in ASCII.  A code point of the source outside     *)
(* ASCII is written as one ASCII character that no text of the model uses  *)
(* otherwise and that falls in the same classes for every test the code    *)
(* makes (it is neither a \w character nor whitespace):                    *)
(*     the degree sign U+00B0  is written  ^                               *)
(*     the bullet      U+2022  is written  ~                               *)
(*     any emoji code point or variation selector is written  @           *)
(* Python floats that are means of integers are kept as fractions          *)
(* [num, den].                                                             *)
(***************************************************************************)
EXTENDS Integers, Sequences, FiniteSets, TLC

(***************************************************************************)
(* Python str primitives                                                   *)
(***************************************************************************)

\* s[i] for a 1-based position i
CharAt(s, i) == SubSeq(s, i, i)

\* `sub in s`.  (Here and below a text is bound once, as t \in {s}, so that
\* it is computed once and not at every place it is read.)
Contains(s, sub) ==
    \E t \in {s}, u \in {sub} :
        \E i \in 1..(Len(t) - Len(u) + 1) : SubSeq(t, i, i + Len(u) - 1) = u

StartsWithAt(s, i, sub) ==
    /\ i >= 1
    /\ i + Len(sub) - 1 <= Len(s)
    /\ SubSeq(s, i, i + Len(sub) - 1) = sub

UpperLetters ==
    <<"A","B","C","D","E","F","G","H","I","J","K","L","M",
      "N","O","P","Q","R","S","T","U","V","W","X","Y","Z">>

LowerLetters ==
    <<"a","b","c","d","e","f","g","h","i","j","k","l","m",
      "n","o","p","q","r","s","t","u","v","w","x","y","z">>

Digits == {"0","1","2","3","4","5","6","7","8","9"}

ToLower == [c \in {UpperLetters[k] : k \in 1..26} |->
               LowerLetters[CHOOSE k \in 1..26 : UpperLetters[k] = c]]

ToUpper == [c \in {LowerLetters[k] : k \in 1..26} |->
               UpperLetters[CHOOSE k \in 1..26 : LowerLetters[k] = c]]

IsUpper(c) == c \in DOMAIN ToLower
IsLower(c) == c \in DOMAIN ToUpper
IsAlpha(c) == IsUpper(c) \/ IsLower(c)

LowerChar(c) == IF IsUpper(c) THEN ToLower[c] ELSE c

UpperChar(c) == IF IsLower(c) THEN ToUpper[c] ELSE c

\* str.lower(); the text is halved so that the recursion stays shallow
RECURSIVE Lower(_)
Lower(s) ==
    IF Len(s) = 0 THEN ""
    ELSE IF Len(s) = 1 THEN LowerChar(s)
    ELSE LET h == Len(s) \div 2
         IN  Lower(SubSeq(s, 1, h)) \o Lower(SubSeq(s, h + 1, Len(s)))

\* a character matched by \s, and stripped by str.strip()
IsSpace(c) == c \in {" ", "\n", "\t", "\r", "\f"}

\* a character matched by \w
WordChars == DOMAIN ToLower \cup DOMAIN ToUpper \cup Digits \cup {"_"}

IsWordChar(c) == c \in WordChars

\* str.strip(): from the first to the last character that is not whitespace
StripOf(t) ==
    IF \A i \in 1..Len(t) : IsSpace(CharAt(t, i)) THEN ""
    ELSE LET a == CHOOSE i \in 1..Len(t) :
                      /\ ~IsSpace(CharAt(t, i))
                      /\ \A j \in 1..(i - 1) : IsSpace(CharAt(t, j))
             b == CHOOSE i \in 1..Len(t) :
                      /\ ~IsSpace(CharAt(t, i))
                      /\ \A j \in (i + 1)..Len(t) : IsSpace(CharAt(t, j))
         IN  SubSeq(t, a, b)

Strip(s) == CHOOSE r \in {StripOf(t) : t \in {s}} : TRUE

\* str.title(): a letter is upper-cased when it follows a character that is
\* not a letter (or starts the text) and lower-cased otherwise
RECURSIVE TitleFrom(_, _)
TitleFrom(s, i) ==
    IF i > Len(s) THEN ""
    ELSE LET c     == CharAt(s, i)
             first == i = 1 \/ ~IsAlpha(CharAt(s, i - 1))
         IN  (IF first THEN UpperChar(c) ELSE LowerChar(c)) \o TitleFrom(s, i + 1)

Title(s) == TitleFrom(s, 1)

\* the end of the maximal run of characters satisfying \w that starts at i
RECURSIVE WordEnd(_, _)
WordEnd(s, i) ==
    IF i = Len(s) \/ ~IsWordChar(CharAt(s, i + 1)) THEN i ELSE WordEnd(s, i + 1)

\* set(re.findall(r'\w+', s))
WordSet(s) ==
    UNION {{SubSeq(t, i, WordEnd(t, i)) :
               i \in {i \in 1..Len(t) : /\ IsWordChar(CharAt(t, i))
                                        /\ (i = 1 \/ ~IsWordChar(CharAt(t, i - 1)))}} :
           t \in {s}}

\* len(s.split())
SplitCount(s) ==
    Cardinality(UNION {{i \in 1..Len(t) : /\ ~IsSpace(CharAt(t, i))
                                          /\ (i = 1 \/ IsSpace(CharAt(t, i - 1)))} :
                       t \in {s}})

\* d.get(k, default) of a dict
Get(d, k, default) == IF k \in DOMAIN d THEN d[k] ELSE default

Min(a, b) == IF a <= b THEN a ELSE b
Max(a, b) == IF a >= b THEN a ELSE b

\* the texts over an alphabet of at most n characters: the inputs of a check
RECURSIVE TextsUpTo(_, _)
TextsUpTo(alphabet, n) ==
    IF n = 0 THEN {""}
    ELSE LET shorter == TextsUpTo(alphabet, n - 1)
         IN  shorter \cup {t \o c : t \in shorter, c \in alphabet}

(***************************************************************************)
(* The state of one run of AIPipeline.process_query                        *)
(***************************************************************************)
VARIABLES
    pc,              \* the node the graph runs next; "return" after END, "done" after process_query returned
    user_query,      \* AgentState.user_query
    query_type,      \* AgentState.query_type
    weather_data,    \* AgentState.weather_data (a dict)
    retrieved_docs,  \* AgentState.retrieved_docs (a list of dicts)
    response,        \* AgentState.response
    evaluation,      \* AgentState.evaluation (a dict)
    result,          \* what process_query returned (<<>> until it has)
    trace,           \* the nodes run so far, in order
    calls            \* which external calls this run made and how they ended, the city
                     \* the weather service was asked for, the number of completion calls

pipeVars == <<pc, user_query, query_type, weather_data, retrieved_docs,
              response, evaluation, result, trace, calls>>

(***************************************************************************)
(* AIPipeline._classify_query                                              *)
(***************************************************************************)
weather_keywords ==
    <<"weather", "temperature", "forecast", "humidity", "wind",
      "rain", "snow", "sunny", "cloudy", "hot", "cold", "degrees",
      "celsius", "fahrenheit", "precipitation", "atmosphere", "aqi",
      "air quality", "pollution", "air quality index">>

\* any(keyword in query for keyword in keywords)
AnyIn(keywords, query) ==
    \E t \in {query} : \E k \in 1..Len(keywords) : Contains(t, keywords[k])

\* the classifier with the label of the second branch changed to one the
\* conditional edge has no entry for
ClassifyQueryTypeUnrouted(text) ==
    IF AnyIn(weather_keywords, Lower(text)) THEN "weather" ELSE "document"

\* the classifier without the .lower() of the query
ClassifyQueryTypeCaseSensitive(text) ==
    IF AnyIn(weather_keywords, text) THEN "weather" ELSE "rag"

ClassifyQueryType(text) ==
    IF AnyIn(weather_keywords, Lower(text)) THEN "weather" ELSE "rag"

(***************************************************************************)
(* AIPipeline._create_graph: the edges of the compiled workflow.           *)
(* _route_query returns query_type, which the conditional edge looks up in *)
(* {"weather": "get_weather", "rag": "get_rag_response"}; a value with no  *)
(* entry makes graph.invoke raise.                                         *)
(***************************************************************************)
EdgeSkipsEvaluationOnError(node, qtype, resp) ==
    CASE node = "classify_query" ->
             (CASE qtype = "weather" -> "get_weather"
                [] qtype = "rag"     -> "get_rag_response"
                [] OTHER             -> "raise")
      [] node = "get_weather"       -> "generate_response"
      [] node = "get_rag_response"  -> "generate_response"
      [] node = "generate_response" ->
             IF Contains(Lower(resp), "error") \/ Contains(resp, "Sorry")
             THEN "return" ELSE "evaluate_response"
      [] node = "evaluate_response" -> "return"

\* edges that lead from the weather node on to the document node
EdgeRunsBothBranches(node, qtype, resp) ==
    CASE node = "classify_query" ->
             (CASE qtype = "weather" -> "get_weather"
                [] qtype = "rag"     -> "get_rag_response"
                [] OTHER             -> "raise")
      [] node = "get_weather"       -> "get_rag_response"
      [] node = "get_rag_response"  -> "generate_response"
      [] node = "generate_response" -> "evaluate_response"
      [] node = "evaluate_response" -> "return"

Edge(node, qtype, resp) ==
    CASE node = "classify_query" ->
             (CASE qtype = "weather" -> "get_weather"
                [] qtype = "rag"     -> "get_rag_response"
                [] OTHER             -> "raise")
      [] node = "get_weather"       -> "generate_response"
      [] node = "get_rag_response"  -> "generate_response"
      [] node = "generate_response" -> "evaluate_response"
      [] node = "evaluate_response" -> "return"

(***************************************************************************)
(* AIPipeline._extract_city_from_query                                     *)
(***************************************************************************)
cities ==
    <<"london", "new york", "tokyo", "paris", "berlin", "moscow",
      "beijing", "sydney", "toronto", "vancouver", "san francisco",
      "los angeles", "chicago", "miami", "boston", "seattle", "denver",
      "phoenix", "dallas", "houston", "atlanta",
      "delhi", "mumbai", "bangalore", "chennai", "kolkata", "hyderabad",
      "pune", "ahmedabad", "jaipur", "lucknow", "kanpur", "nagpur",
      "indore", "thane", "bhopal", "visakhapatnam", "patna", "vadodara",
      "ghaziabad", "ludhiana">>

\* re.search(lit + r"(\w+)", s).group(1), or "" when there is no match:
\* the leftmost place where lit is followed by a \w character
CaptureAfter(s, lit) ==
    LET at == {i \in 1..Len(s) : /\ StartsWithAt(s, i, lit)
                                 /\ i + Len(lit) <= Len(s)
                                 /\ IsWordChar(CharAt(s, i + Len(lit)))}
    IN  IF at = {} THEN ""
        ELSE LET i == CHOOSE a \in at : \A b \in at : a <= b
             IN  SubSeq(s, i + Len(lit), WordEnd(s, i + Len(lit)))

\* re.search(r"(\w+)" + lit, s).group(1), or "" when there is no match; lit
\* starts with a space, so the greedy group is a whole run of \w characters
\* that ends where lit begins, and the leftmost match takes the first such run
CaptureBefore(s, lit) ==
    LET at == {j \in 2..Len(s) : /\ StartsWithAt(s, j, lit)
                                 /\ IsWordChar(CharAt(s, j - 1))}
    IN  IF at = {} THEN ""
        ELSE LET j == CHOOSE a \in at : \A b \in at : a <= b
                 i == CHOOSE a \in 1..(j - 1) :
                          /\ \A k \in a..(j - 1) : IsWordChar(CharAt(s, k))
                          /\ (a = 1 \/ ~IsWordChar(CharAt(s, a - 1)))
             IN  SubSeq(s, i, j - 1)

\* the five patterns in order; the first that matches gives the capture
PatternCapture(s) ==
    LET c1 == CaptureAfter(s, "weather in ")
        c2 == CaptureAfter(s, "temperature in ")
        c3 == CaptureAfter(s, "forecast for ")
        c4 == CaptureBefore(s, " weather")
        c5 == CaptureBefore(s, " temperature")
    IN  IF c1 # "" THEN c1
        ELSE IF c2 # "" THEN c2
        ELSE IF c3 # "" THEN c3
        ELSE IF c4 # "" THEN c4
        ELSE c5

\* an extraction that does not look the list of cities up
ExtractCityPatternsOnly(query) == Title(PatternCapture(Lower(query)))

\* an extraction that tries the patterns before the list of cities
ExtractCityPatternsFirst(query) ==
    LET query_lower == Lower(query)
        hits        == {k \in 1..Len(cities) : Contains(query_lower, cities[k])}
    IN  IF PatternCapture(query_lower) # ""
        THEN Title(PatternCapture(query_lower))
        ELSE IF hits # {}
        THEN Title(cities[CHOOSE k \in hits : \A m \in hits : k <= m])
        ELSE ""

ExtractCityFromQuery(query) ==
    LET query_lower == Lower(query)
        hits        == {k \in 1..Len(cities) : Contains(query_lower, cities[k])}
    IN  IF hits # {}
        THEN Title(cities[CHOOSE k \in hits : \A m \in hits : k <= m])
        ELSE Title(PatternCapture(query_lower))

(***************************************************************************)
(* WeatherService.  The HTTP request to the weather API is external: its   *)
(* outcome is an input of the step, either a decoded reply or the          *)
(* exception the request layer raised.  A call is ok with its value, or    *)
(* has raised with str(e) as err.                                          *)
(***************************************************************************)
indian_cities ==
    <<"delhi", "mumbai", "bangalore", "chennai", "kolkata", "hyderabad",
      "pune", "ahmedabad", "jaipur", "lucknow", "kanpur", "nagpur",
      "indore", "thane", "bhopal", "visakhapatnam", "patna", "vadodara",
      "ghaziabad", "ludhiana">>

IsIndianCity(name) == \E k \in 1..Len(indian_cities) : indian_cities[k] = name

\* the weather_info dict built from a reply of the API
SampleSnapshot ==
    [city |-> "Paris", country |-> "FR", temperature |-> "21.5",
     feels_like |-> "20.9", humidity |-> "60", pressure |-> "1012",
     description |-> "light rain", wind_speed |-> "3.6",
     wind_direction |-> "240", visibility |-> "10000",
     sunrise |-> "1700000000", sunset |-> "1700030000"]

\* kind "request": requests.exceptions.RequestException; "format": KeyError;
\* "other": any other exception raised inside the try
HttpOutcomes ==
    {[kind |-> "ok", data |-> SampleSnapshot],
     [kind |-> "request", msg |-> "Read timed out."],
     [kind |-> "format", msg |-> "'main'"],
     [kind |-> "other", msg |-> "Expecting value"]}

GetWeatherByCoordinates(out) ==
    CASE out.kind = "ok"      -> [ok |-> TRUE, val |-> out.data]
      [] out.kind = "request" -> [ok |-> FALSE, err |-> "Weather API request failed: " \o out.msg]
      [] out.kind = "format"  -> [ok |-> FALSE, err |-> "Unexpected weather data format: " \o out.msg]
      [] OTHER                -> [ok |-> FALSE, err |-> "Error getting weather data: " \o out.msg]

\* for an Indian city the lookup by coordinates runs inside the try, and what
\* it raises is caught by `except Exception` and wrapped once more
GetWeatherByCity(city, out) ==
    IF IsIndianCity(Lower(city))
    THEN LET r == GetWeatherByCoordinates(out)
         IN  IF r.ok THEN r
             ELSE [ok |-> FALSE, err |-> "Error getting weather data: " \o r.err]
    ELSE GetWeatherByCoordinates(out)

\* a get_aqi_info that looks a city outside the table up by its name
GetAqiInfoByName(city, out) ==
    LET r == GetWeatherByCity(city, out)
    IN  IF r.ok
        THEN [city |-> r.val.city,
              weather_data |-> r.val,
              aqi_note |-> "AQI data requires separate API integration",
              suggested_aqi_apis |-> <<"AirVisual API",
                                       "WAQI (World Air Quality Index)",
                                       "OpenWeatherMap Air Pollution API">>]
        ELSE [error |-> "Error getting AQI data: " \o r.err]

\* get_aqi_info returns a dict in every case
GetAqiInfo(city, out) ==
    IF IsIndianCity(Lower(city))
    THEN LET r == GetWeatherByCoordinates(out)
         IN  IF r.ok
             THEN [city |-> r.val.city,
                   weather_data |-> r.val,
                   aqi_note |-> "AQI data requires separate API integration",
                   suggested_aqi_apis |-> <<"AirVisual API",
                                            "WAQI (World Air Quality Index)",
                                            "OpenWeatherMap Air Pollution API">>]
             ELSE [error |-> "Error getting AQI data: " \o r.err]
    ELSE [error |-> "City " \o city \o " not found in Indian cities database",
          available_cities |-> indian_cities]

(***************************************************************************)
(* AIPipeline._get_weather                                                 *)
(***************************************************************************)
aqi_keywords == <<"aqi", "air quality", "pollution", "air quality index">>

IsAqiQuery(text) == AnyIn(aqi_keywords, Lower(text))

\* the city the lookup is made for: the extracted one, or the default
ResolvedCity(text) ==
    LET city == ExtractCityFromQuery(text)
    IN  IF city # "" THEN city
        ELSE IF AnyIn(indian_cities, Lower(text)) THEN "delhi" ELSE "London"

\* whether _get_weather reaches the HTTP request at all
MakesRequest(text) ==
    ~IsAqiQuery(text) \/ IsIndianCity(Lower(ResolvedCity(text)))

WeatherDataFor(text, out) ==
    IF IsAqiQuery(text)
    THEN GetAqiInfo(ResolvedCity(text), out)
    ELSE LET r == GetWeatherByCity(ResolvedCity(text), out)
         IN  IF r.ok THEN r.val ELSE [error |-> r.err]

(***************************************************************************)
(* VectorStore.search as the pipeline uses it.  The embedding of the query *)
(* and the nearest-neighbour search are external; the store's reply is the *)
(* list of its points ranked by similarity to the query.                   *)
(***************************************************************************)
Doc(content, score) ==
    [content |-> content, metadata |-> [chunk_id |-> 0, source |-> "uploaded_pdf"],
     source |-> "uploaded_pdf", score |-> score]

\* scores are cosine similarities in hundredths
SampleRanking ==
    <<Doc("AutoGen is a framework for\nmulti-agent conversations.", 91),
      Doc("  Conversable agents talk to each other.  ", 84),
      Doc("\n", 80),
      Doc("Agents are reusable.", 77)>>

\* the ranked contents of the collection: empty, one point, four points
RankedIndexes == {<<>>, SubSeq(SampleRanking, 1, 1), SampleRanking}

SearchOutcomes ==
    {[kind |-> "ok", ranked |-> r] : r \in RankedIndexes}
    \cup {[kind |-> "embed_error", msg |-> "embedding service unreachable"],
          [kind |-> "search_error", msg |-> "Connection refused"]}

\* search(query, top_k): raises what embed_query or client.search raise
VectorSearch(out, top_k) ==
    IF out.kind = "ok"
    THEN [ok |-> TRUE, val |-> SubSeq(out.ranked, 1, Min(top_k, Len(out.ranked)))]
    ELSE [ok |-> FALSE, err |-> out.msg]

\* _get_rag_response: the except branch stores one dict with the key "content"
RetrievedDocsFor(out) ==
    LET r == VectorSearch(out, 3)
    IN  IF r.ok THEN r.val
        ELSE <<[content |-> "Error retrieving documents: " \o r.err]>>

(***************************************************************************)
(* EuriaiService.  The completion call (agent.run) is external: it returns *)
(* a text or raises.  The prompt is built from the context and the query   *)
(* and is read by nothing but that call.                                   *)
(***************************************************************************)
SampleCompletions ==
    {"",
     "The temperature in Paris is 21.5^C with light rain and wind.",
     "## Answer\n\n- **AutoGen** is described in the document chunk.\n\n1. agents",
     "no"}

CompletionOutcomes ==
    {[kind |-> "ok", content |-> c] : c \in SampleCompletions}
    \cup {[kind |-> "raise"]}

\* the fallback of process_weather_query, after .strip()
WeatherFallback(wd) ==
    Strip("\n@@ Weather Report for " \o Get(wd, "city", "Unknown")
          \o "\n\n@@ Temperature: " \o Get(wd, "temperature", "N/A")
          \o "^C\n@ Humidity: " \o Get(wd, "humidity", "N/A")
          \o "%\n@@ Wind: " \o Get(wd, "wind_speed", "N/A")
          \o " m/s\n@ Pressure: " \o Get(wd, "pressure", "N/A")
          \o " hPa\n@@ Conditions: " \o Get(wd, "description", "N/A")
          \o "\n\n@@ Note: Using fallback response due to API limitations.\n            ")

ProcessWeatherQuery(wd, query, out) ==
    IF out.kind = "ok" THEN out.content ELSE WeatherFallback(wd)

\* str.replace('\n', ' ')
RECURSIVE ReplaceNewlines(_)
ReplaceNewlines(s) ==
    IF Len(s) = 0 THEN ""
    ELSE IF Len(s) = 1 THEN (IF s = "\n" THEN " " ELSE s)
    ELSE LET h == Len(s) \div 2
         IN  ReplaceNewlines(SubSeq(s, 1, h)) \o ReplaceNewlines(SubSeq(s, h + 1, Len(s)))

\* the cleaned contents that are not empty, in order
RECURSIVE AllContent(_)
AllContent(docs) ==
    IF docs = <<>> THEN <<>>
    ELSE LET clean == Strip(ReplaceNewlines(Get(Head(docs), "content", "")))
         IN  (IF clean # "" THEN <<clean>> ELSE <<>>) \o AllContent(Tail(docs))

DigitText(i) == CASE i = 1 -> "1" [] i = 2 -> "2" [] i = 3 -> "3"

\* content[:200] + "..." when the content is longer
ManualTruncate(content) ==
    IF Len(content) > 200 THEN SubSeq(content, 1, 200) \o "..." ELSE content

RECURSIVE ManualSections(_, _)
ManualSections(contents, i) ==
    IF i > Min(3, Len(contents)) THEN ""
    ELSE "\n**Section " \o DigitText(i) \o ":**\n" \o ManualTruncate(contents[i])
         \o "\n\n" \o ManualSections(contents, i + 1)

AutoGenAnswer ==
    Strip("\n"
        \o "## @ AutoGen Framework\n"
        \o "\n"
        \o "Based on the document content, here's what the AutoGen framework is:\n"
        \o "\n"
        \o "### @ Core Concept\n"
        \o "AutoGen is a framework designed to **streamline and consolidate multi-agent workflows** using multi-agent conversations. It aims to reduce the effort required for developers to create complex LLM applications across various domains.\n"
        \o "\n"
        \o "### @ Key Design Principles\n"
        \o "- **Multi-agent conversations**: Uses conversable agents for complex workflows\n"
        \o "- **Reusability**: Maximizes the reusability of implemented agents\n"
        \o "- **Simplification**: Reduces development effort for complex LLM applications\n"
        \o "- **Unified approach**: Consolidates multi-agent workflows\n"
        \o "\n"
        \o "### @ Main Components\n"
        \o "The framework introduces two key concepts:\n"
        \o "1. **Conversable agents**: Agents that can communicate with each other\n"
        \o "2. **Conversation programming**: A way to program multi-agent interactions\n"
        \o "\n"
        \o "### @ Purpose\n"
        \o "AutoGen provides ready-to-use implementations and allows easy extension and experimentation for both agent creation and behavior definition.\n"
        \o "\n"
        \o "---\n"
        \o "*This response is based on the uploaded document content.*\n"
        \o "                ")

\* _manual_rag_processing
ManualRagProcessing(docs, query) ==
    LET query_lower == Lower(query)
    IN  IF Contains(query_lower, "autogen") /\ Contains(query_lower, "framework")
        THEN AutoGenAnswer
        ELSE Strip("\n## @ Answer: " \o query
                   \o "\n\nBased on the document content, here are the key points:\n\n### @ Key Information\n\n"
                   \o ManualSections(AllContent(docs), 1)
                   \o "\n---\n*This response is based on the uploaded document content.*\n                ")

\* str(n) for n >= 0
RECURSIVE IntText(_)
IntText(n) ==
    IF n < 10 THEN SubSeq("0123456789", n + 1, n + 1)
    ELSE IntText(n \div 10) \o SubSeq("0123456789", (n % 10) + 1, (n % 10) + 1)

\* lines 144-145: clean_content[:400] + "..." when the content is longer
OuterTruncate(content) ==
    IF Len(content) > 400 THEN SubSeq(content, 1, 400) \o "..." ELSE content

\* lines 140-151
RECURSIVE OuterSections(_, _)
OuterSections(docs, i) ==
    IF i > Min(3, Len(docs)) THEN ""
    ELSE "\n**Section " \o IntText(i) \o ":**\n"
         \o OuterTruncate(Strip(ReplaceNewlines(Get(docs[i], "content", "No content available"))))
         \o "\n\n" \o OuterSections(docs, i + 1)

\* lines 127-161: the except branch of the outer try of process_rag_query
OuterFallback(docs, query) ==
    Strip("\n## @ Answer Based on Document Content: " \o query
          \o "\n\n### @ Information Retrieved\nI found **" \o IntText(Len(docs))
          \o "** relevant sections from the uploaded document that help answer your question.\n\n### @ Key Information from the Document\n\n"
          \o OuterSections(docs, 1)
          \o "\n### @ Summary\nBased on the document content, this information should help answer your question. For a more detailed AI-generated response, please try again when the service is fully available.\n\n### @@ Note\nThis is a fallback response due to API limitations. The AI service will provide more comprehensive analysis when available.\n            ")

\* process_rag_query: the join of the contents (line 98) raises for a dict
\* without the key "content", which the outer except branch catches; an
\* exception of the completion call is caught by the inner except (lines
\* 120-125), which returns _manual_rag_processing
ProcessRagQuery(docs, query, out) ==
    IF \E i \in 1..Len(docs) : "content" \notin DOMAIN docs[i]
    THEN OuterFallback(docs, query)
    ELSE IF out.kind = "ok" THEN out.content
    ELSE ManualRagProcessing(docs, query)

(***************************************************************************)
(* AIPipeline._generate_response                                           *)
(***************************************************************************)
WeatherApology(wd) == "Sorry, I couldn't get weather information: " \o wd.error

UploadFirst ==
    "I don't have enough information in my knowledge base to answer this question. Please upload a PDF document first."

\* a generate stage that hands every context to the completion service
CallsCompletionAlways(qtype, wd, docs) == qtype \in {"weather", "rag"}

\* whether the branch taken hands the context to the completion service
CallsCompletion(qtype, wd, docs) ==
    CASE qtype = "weather" -> "error" \notin DOMAIN wd
      [] qtype = "rag"     -> ~(docs = <<>> \/ "error" \in DOMAIN docs[1])
      [] OTHER             -> FALSE

GenerateCallsCompletionOnError(qtype, wd, docs, query, out) ==
    CASE qtype = "weather" -> ProcessWeatherQuery(wd, query, out)
      [] qtype = "rag"     ->
             IF docs = <<>> \/ "error" \in DOMAIN docs[1]
             THEN UploadFirst
             ELSE ProcessRagQuery(docs, query, out)
      [] OTHER -> "I'm not sure how to handle this type of query."

Generate(qtype, wd, docs, query, out) ==
    CASE qtype = "weather" ->
             IF "error" \in DOMAIN wd
             THEN WeatherApology(wd)
             ELSE ProcessWeatherQuery(wd, query, out)
      [] qtype = "rag"     ->
             IF docs = <<>> \/ "error" \in DOMAIN docs[1]
             THEN UploadFirst
             ELSE ProcessRagQuery(docs, query, out)
      [] OTHER -> "I'm not sure how to handle this type of query."

(***************************************************************************)
(* EvaluationService                                                       *)
(***************************************************************************)
failure_words == <<"error", "failed", "unavailable", "limitation">>

weather_indicators == <<"temperature", "humidity", "wind", "pressure", "^c", "^f">>

\* an accuracy that looks at the type before the failure words
EvaluateAccuracyTypeFirst(query, resp, qtype) ==
    IF resp = "" \/ Strip(resp) = "" THEN 1
    ELSE IF qtype = "weather" /\ AnyIn(weather_indicators, Lower(resp)) THEN 4
    ELSE IF qtype = "rag" /\ (Contains(Lower(resp), "document") \/ Contains(Lower(resp), "chunk"))
         THEN 4
    ELSE IF AnyIn(failure_words, Lower(resp)) THEN 2
    ELSE 3

EvaluateAccuracy(query, resp, qtype) ==
    IF resp = "" \/ Strip(resp) = "" THEN 1
    ELSE IF AnyIn(failure_words, Lower(resp)) THEN 2
    ELSE IF qtype = "weather"
         THEN (IF AnyIn(weather_indicators, Lower(resp)) THEN 4 ELSE 3)
    ELSE IF qtype = "rag"
         THEN (IF Contains(Lower(resp), "document") \/ Contains(Lower(resp), "chunk")
               THEN 4 ELSE 3)
    ELSE 3

\* a relevance without the floor for an empty response
EvaluateRelevanceNoFloor(query, resp, qtype) ==
    LET overlap == Cardinality(WordSet(Lower(query)) \cap WordSet(Lower(resp)))
    IN  IF overlap > 0 THEN Min(5, 3 + overlap) ELSE 3

EvaluateRelevance(query, resp, qtype) ==
    IF resp = "" THEN 1
    ELSE LET overlap == Cardinality(WordSet(Lower(query)) \cap WordSet(Lower(resp)))
         IN  IF overlap > 0 THEN Min(5, 3 + overlap) ELSE 3

EvaluateCompleteness(query, resp, qtype) ==
    IF resp = "" THEN 1
    ELSE LET word_count == SplitCount(resp)
         IN  IF word_count < 10 THEN 2
             ELSE IF word_count < 50 THEN 3
             ELSE IF word_count < 200 THEN 4
             ELSE 5

structure_markers == <<"~", "-", "*", "1.", "2.">>

\* a clarity without the cap at 5
EvaluateClarityUncapped(resp) ==
    IF resp = "" THEN 1
    ELSE 3 + (IF Contains(resp, "#") \/ Contains(resp, "**") THEN 1 ELSE 0)
           + (IF AnyIn(structure_markers, resp) THEN 1 ELSE 0)
           + (IF Contains(resp, "\n\n") THEN 1 ELSE 0)

\* a clarity that gives nothing for a blank line
EvaluateClarityNoParagraphs(resp) ==
    IF resp = "" THEN 1
    ELSE Min(5, 3 + (IF Contains(resp, "#") \/ Contains(resp, "**") THEN 1 ELSE 0)
                  + (IF AnyIn(structure_markers, resp) THEN 1 ELSE 0))

EvaluateClarity(resp) ==
    IF resp = "" THEN 1
    ELSE LET has_headers    == Contains(resp, "#") \/ Contains(resp, "**")
             has_structure  == AnyIn(structure_markers, resp)
             has_paragraphs == Contains(resp, "\n\n")
         IN  Min(5, 3 + (IF has_headers THEN 1 ELSE 0)
                      + (IF has_structure THEN 1 ELSE 0)
                      + (IF has_paragraphs THEN 1 ELSE 0))

\* a >= n for the fraction a
FracGeq(a, n) == a.num >= n * a.den

\* a feedback that closes with a verdict only when it holds no advisory
GenerateFeedbackVerdictUnlessAdvised(ev) ==
    LET advice ==
            (IF ev.accuracy < 3 THEN <<"@@ Response accuracy could be improved">> ELSE <<>>)
            \o (IF ev.relevance < 3 THEN <<"@@ Response could be more relevant to the query">> ELSE <<>>)
            \o (IF ev.completeness < 3 THEN <<"@@ Response could be more comprehensive">> ELSE <<>>)
            \o (IF ev.clarity < 3 THEN <<"@@ Response could be clearer and better formatted">> ELSE <<>>)
    IN  IF advice # <<>> THEN advice
        ELSE IF FracGeq(ev.overall_score, 4) THEN <<"@ Excellent response quality">>
        ELSE <<"@ Good response quality">>

GenerateFeedback(ev) ==
    (IF ev.accuracy < 3 THEN <<"@@ Response accuracy could be improved">> ELSE <<>>)
    \o (IF ev.relevance < 3 THEN <<"@@ Response could be more relevant to the query">> ELSE <<>>)
    \o (IF ev.completeness < 3 THEN <<"@@ Response could be more comprehensive">> ELSE <<>>)
    \o (IF ev.clarity < 3 THEN <<"@@ Response could be clearer and better formatted">> ELSE <<>>)
    \o (IF FracGeq(ev.overall_score, 4) THEN <<"@ Excellent response quality">>
        ELSE IF FracGeq(ev.overall_score, 3) THEN <<"@ Good response quality">>
        ELSE <<"@@ Response quality needs improvement">>)

\* a dict of the except branch that holds the error alone
NeutralEvaluationWithoutScores(err) == [error |-> err]

\* the dict of the except branch of evaluate_response
NeutralEvaluation(err) ==
    [accuracy |-> 3, relevance |-> 3, completeness |-> 3, clarity |-> 3,
     overall_score |-> [num |-> 3, den |-> 1],
     feedback |-> <<"Evaluation service temporarily unavailable">>,
     error |-> err]

\* evaluate_response; raised is the message of an exception raised inside its
\* try ("" when none is), which the except branch turns into the neutral dict
EvaluateResponse(query, resp, qtype, raised) ==
    IF raised # "" THEN NeutralEvaluation(raised)
    ELSE LET a  == EvaluateAccuracy(query, resp, qtype)
             r  == EvaluateRelevance(query, resp, qtype)
             c  == EvaluateCompleteness(query, resp, qtype)
             cl == EvaluateClarity(resp)
             ev == [accuracy |-> a, relevance |-> r, completeness |-> c, clarity |-> cl,
                    overall_score |-> [num |-> a + r + c + cl, den |-> 4],
                    feedback |-> <<>>]
         IN  [ev EXCEPT !.feedback = GenerateFeedback(ev)]

EvaluatorOutcomes == {"", "internal failure"}

(***************************************************************************)
(* PDFProcessor.chunk_text                                                 *)
(***************************************************************************)
VARIABLES
    ck_pc,        \* "entry": called; "loop": at the head of the while loop; "done": returned
    ck_input,     \* the argument text
    ck_size,      \* the argument chunk_size
    ck_overlap,   \* the argument overlap
    ck_text,      \* the local text, after cleaning
    ck_start,     \* the local start
    ck_chunks,    \* the local chunks
    ck_seen       \* the values start had at the head of the loop, before this iteration

chunkVars == <<ck_pc, ck_input, ck_size, ck_overlap, ck_text, ck_start,
               ck_chunks, ck_seen>>

\* re.sub(r'\s+', ' ', text): every run of whitespace becomes one space
RECURSIVE CollapseRange(_, _, _)
CollapseRange(t, a, b) ==
    IF a > b THEN ""
    ELSE IF a = b
         THEN (IF ~IsSpace(CharAt(t, a)) THEN CharAt(t, a)
               ELSE IF a > 1 /\ IsSpace(CharAt(t, a - 1)) THEN "" ELSE " ")
    ELSE LET h == (a + b) \div 2
         IN  CollapseRange(t, a, h) \o CollapseRange(t, h + 1, b)

CleanText(text) ==
    CHOOSE r \in {Strip(CollapseRange(t, 1, Len(t))) : t \in {text}} : TRUE

\* a slice bound of Python for a sequence of length n: a negative bound counts
\* from the end, and the bound is clipped to 0..n
SliceBound(i, n) == IF i < 0 THEN Max(i + n, 0) ELSE Min(i, n)

\* t[a:b], with 0-based bounds
Slice(t, a, b) ==
    LET x == SliceBound(a, Len(t))
        y == SliceBound(b, Len(t))
    IN  IF x >= y THEN "" ELSE SubSeq(t, x + 1, y)

\* t.rfind('.', a, b): the highest 0-based index in t[a:b] holding '.', or -1
RFindPeriod(t, a, b) ==
    LET x    == SliceBound(a, Len(t))
        y    == SliceBound(b, Len(t))
        hits == {k \in x..(y - 1) : CharAt(t, k + 1) = "."}
    IN  IF hits = {} THEN -1 ELSE CHOOSE k \in hits : \A m \in hits : m <= k

\* a window that ends after the last period wherever in the window it is
WindowEndAtAnyPeriod(t, start, chunk_size) ==
    LET end          == start + chunk_size
        sentence_end == RFindPeriod(t, start, end)
    IN  IF end < Len(t) /\ sentence_end > start
        THEN sentence_end + 1
        ELSE end

\* the end of the window that starts at start
WindowEnd(t, start, chunk_size) ==
    LET end          == start + chunk_size
        sentence_end == RFindPeriod(t, start, end)
    IN  IF end < Len(t) /\ sentence_end > start + chunk_size \div 2
        THEN sentence_end + 1
        ELSE end

MaxTextLen == 6
MaxChunkSize == 5
MaxOverlap == 5

ChunkAlphabet == {"a", ".", " "}

SampleTexts == {"a\n\t a.", "\n", "a. a a. a"}

ChunkInit ==
    /\ ck_pc = "entry"
    /\ ck_input \in TextsUpTo(ChunkAlphabet, MaxTextLen) \cup SampleTexts
    /\ ck_size \in 1..MaxChunkSize
    /\ ck_overlap \in 0..MaxOverlap
    /\ ck_text = ""
    /\ ck_start = 0
    /\ ck_chunks = <<>>
    /\ ck_seen = {}

\* lines 24-31: the early return, the cleaning, and the first test of the loop
ChunkTextEnter ==
    /\ ck_pc = "entry"
    /\ IF ck_input = ""
       THEN ck_text' = ck_text /\ ck_pc' = "done"
       ELSE /\ ck_text' = CleanText(ck_input)
            /\ ck_pc' = IF 0 < Len(ck_text') THEN "loop" ELSE "done"
    /\ UNCHANGED <<ck_input, ck_size, ck_overlap, ck_start, ck_chunks, ck_seen>>

\* lines 33-50: one iteration of the loop.  An iteration is a function of
\* start alone, so when start takes a value it had before, the loop never
\* ends; the model stops there, at the head of the loop.
ChunkTextIterate ==
    /\ ck_pc = "loop"
    /\ ck_start \notin ck_seen
    /\ LET end   == WindowEnd(ck_text, ck_start, ck_size)
           chunk == Strip(Slice(ck_text, ck_start, end))
       IN  /\ ck_chunks' = IF chunk # "" THEN Append(ck_chunks, chunk) ELSE ck_chunks
           /\ ck_start' = end - ck_overlap
    /\ ck_seen' = ck_seen \cup {ck_start}
    /\ ck_pc' = IF ck_start' >= Len(ck_text) THEN "done" ELSE "loop"
    /\ UNCHANGED <<ck_input, ck_size, ck_overlap, ck_text>>

\* the loop is back at a start it has had: chunk_text does not return
ChunkTextRunsForever == ck_pc = "loop" /\ ck_start \in ck_seen

(***************************************************************************)
(* VectorStore.add_documents and VectorStore.search on one collection.     *)
(* Several calls of add_documents and searches interleave.  The embedding  *)
(* service and the collection store are external.  embed_documents returns *)
(* one vector per text or raises.  client.upsert is one request of the     *)
(* store: it stores the points of the request and returns, or raises and   *)
(* stores none of them.                                                    *)
(***************************************************************************)
VARIABLES
    vs_points,      \* the points of the collection
    ad_pc,          \* per call of add_documents: "entry", "upsert", "returned", "raised"
    ad_documents,   \* per call: the argument documents
    ad_points,      \* per call: the local points
    ad_result,      \* per call: the ids returned, or the message of the exception raised
    sr_visible,     \* the points the collection held when the last search read it
    sr_result,      \* what the last search returned, or the exception it raised
    sr_top_k,       \* the argument top_k of the last search
    sr_limits       \* the limits of the requests the last search made to the store

storeVars == <<vs_points, ad_pc, ad_documents, ad_points, ad_result,
               sr_visible, sr_result, sr_top_k, sr_limits>>

NumCalls == 2
MaxDocs == 2
MaxTopK == 2

AddCalls == 1..NumCalls

\* the dicts process_pdf_for_rag builds for the chunks of one document
DocumentsOf(c, n) ==
    [i \in 1..n |->
        LET chunk == IF c = 1 THEN "agents " \o DigitText(i) ELSE "weather " \o DigitText(i)
        IN  [content |-> chunk,
             metadata |-> [chunk_id |-> i - 1, source |-> "uploaded_pdf",
                           chunk_size |-> Len(chunk)],
             source |-> "uploaded_pdf"]]

\* the vector of a text is whatever the embedding service computes for it
Embedding(text) == [embedding_of |-> text]

\* embeddings.embed_documents(texts)
EmbedDocuments(texts) == [i \in 1..Len(texts) |-> Embedding(texts[i])]

\* lines 58-70: one PointStruct per pair of zip(documents, embeddings); c and
\* i stand for the fresh uuid4
BuildPoints(c, documents, embeddings) ==
    [i \in 1..Min(Len(documents), Len(embeddings)) |->
        [id |-> <<c, i>>,
         vector |-> embeddings[i],
         payload |-> [content |-> documents[i].content,
                      metadata |-> Get(documents[i], "metadata", <<>>),
                      source |-> Get(documents[i], "source", "unknown")]]]

\* an upsert that sends the points one request at a time, of which only the
\* first has been made when the call ends
UpsertRequestFirstPointOnly(points) == {points[i] : i \in 1..Min(1, Len(points))}

\* the points of the one upsert request of lines 73-76
UpsertRequest(points) == {points[i] : i \in 1..Len(points)}

\* the similarity the store computes between the query and a point, in
\* hundredths; the points of the model have distinct similarities
Similarity(point) == 100 - (10 * point.id[1] + point.id[2])

\* the points in the order the store returns them: by descending similarity
RECURSIVE Ranked(_)
Ranked(points) ==
    IF points = {} THEN <<>>
    ELSE LET best == CHOOSE p \in points :
                         \A q \in points : Similarity(q) <= Similarity(p)
         IN  <<best>> \o Ranked(points \ {best})

\* lines 96-104: the dict made of one scored point
FormatResult(point) ==
    [content |-> point.payload.content,
     metadata |-> Get(point.payload, "metadata", <<>>),
     source |-> Get(point.payload, "source", "unknown"),
     score |-> Similarity(point)]

StoreInit ==
    /\ vs_points = {}
    /\ ad_pc = [c \in AddCalls |-> "entry"]
    /\ \E n \in [AddCalls -> 0..MaxDocs] :
          ad_documents = [c \in AddCalls |-> DocumentsOf(c, n[c])]
    /\ ad_points = [c \in AddCalls |-> <<>>]
    /\ ad_result = [c \in AddCalls |-> <<>>]
    /\ sr_visible = {}
    /\ sr_result = <<>>
    /\ sr_top_k = 1
    /\ sr_limits = <<>>

\* lines 49-70: the early return, the embedding of all the texts, the points
AddDocumentsEmbed(c) ==
    /\ ad_pc[c] = "entry"
    /\ \E out \in {"ok", "embedding service unreachable"} :
          IF ad_documents[c] = <<>>
          THEN /\ ad_pc' = [ad_pc EXCEPT ![c] = "returned"]
               /\ ad_result' = [ad_result EXCEPT ![c] = <<>>]
               /\ UNCHANGED ad_points
          ELSE IF out = "ok"
          THEN LET texts == [i \in 1..Len(ad_documents[c]) |-> ad_documents[c][i].content]
               IN  /\ ad_points' = [ad_points EXCEPT
                                       ![c] = BuildPoints(c, ad_documents[c], EmbedDocuments(texts))]
                   /\ ad_pc' = [ad_pc EXCEPT ![c] = "upsert"]
                   /\ UNCHANGED ad_result
          ELSE /\ ad_pc' = [ad_pc EXCEPT ![c] = "raised"]
               /\ ad_result' = [ad_result EXCEPT
                                   ![c] = "Error adding documents to vector store: " \o out]
               /\ UNCHANGED ad_points
    /\ UNCHANGED <<vs_points, ad_documents, sr_visible, sr_result, sr_top_k, sr_limits>>

\* lines 72-81: the upsert request and the return of the ids
AddDocumentsUpsert(c) ==
    /\ ad_pc[c] = "upsert"
    /\ \E out \in {"ok", "Connection refused"} :
          IF out = "ok"
          THEN /\ vs_points' = vs_points \cup UpsertRequest(ad_points[c])
               /\ ad_pc' = [ad_pc EXCEPT ![c] = "returned"]
               /\ ad_result' = [ad_result EXCEPT
                                   ![c] = [i \in 1..Len(ad_points[c]) |-> ad_points[c][i].id]]
          ELSE /\ vs_points' = vs_points
               /\ ad_pc' = [ad_pc EXCEPT ![c] = "raised"]
               /\ ad_result' = [ad_result EXCEPT
                                   ![c] = "Error adding documents to vector store: " \o out]
    /\ UNCHANGED <<ad_documents, ad_points, sr_visible, sr_result, sr_top_k, sr_limits>>

\* search(query, top_k): the embedding of the query, the search of the
\* collection, the formatting of the scored points
Search ==
    /\ \E top_k \in (-1)..MaxTopK :
       \E out \in {[kind |-> "ok", ranked |-> Ranked(vs_points)],
                   [kind |-> "embed_error", msg |-> "embedding service unreachable"],
                   [kind |-> "search_error", msg |-> "Connection refused"]} :
          LET r == VectorSearch(out, top_k)
          IN  /\ sr_result' = IF r.ok
                              THEN [i \in 1..Len(r.val) |-> FormatResult(r.val[i])]
                              ELSE r.err
              /\ sr_visible' = IF out.kind = "embed_error" THEN sr_visible ELSE vs_points
              /\ sr_top_k' = top_k
              /\ sr_limits' = IF out.kind = "embed_error" THEN <<>> ELSE <<top_k>>
    /\ UNCHANGED <<vs_points, ad_pc, ad_documents, ad_points, ad_result>>

(***************************************************************************)
(* One run of AIPipeline.process_query over the compiled graph             *)
(***************************************************************************)
MaxQueryLen == 3

QueryAlphabet == {"h", "o", "t", "H", " "}

SampleQueries ==
    {"What's the weather in Paris?", "Explain the AutoGen framework",
     "What is the AQI in Delhi?", "air quality in Paris", "Pollution today",
     "Is it cold in Springfield", "Oslo weather", "forecast for oslo_2 please",
     "my photo album", "Summarize the document", "mumbai news",
     "Temperature in Pune", "rain?", "Oslo weather and pollution"}
    \cup {"rain in " \o indian_cities[k] : k \in 1..Len(indian_cities)}
    \cup {"pollution levels in " \o cities[k] : k \in 1..Len(cities)}

Queries == SampleQueries \cup TextsUpTo(QueryAlphabet, MaxQueryLen)

NoCalls == [weather |-> "none", search |-> "none", completion |-> "none",
            evaluator |-> "none", reason |-> "", city |-> "", completions |-> 0]

\* process_query builds the initial AgentState and invokes the graph at its
\* entry point
PipeInit ==
    /\ user_query \in Queries
    /\ query_type = ""
    /\ weather_data = <<>>
    /\ retrieved_docs = <<>>
    /\ response = ""
    /\ evaluation = <<>>
    /\ result = <<>>
    /\ trace = <<>>
    /\ calls = NoCalls
    /\ pc = "classify_query"

ClassifyQuery ==
    /\ pc = "classify_query"
    /\ query_type' = ClassifyQueryType(user_query)
    /\ trace' = Append(trace, "classify_query")
    /\ pc' = Edge("classify_query", query_type', response)
    /\ UNCHANGED <<user_query, weather_data, retrieved_docs, response,
                   evaluation, result, calls>>

GetWeather ==
    /\ pc = "get_weather"
    /\ \E out \in HttpOutcomes :
          /\ weather_data' = WeatherDataFor(user_query, out)
          /\ calls' = IF MakesRequest(user_query)
                      THEN [calls EXCEPT !.weather = IF out.kind = "ok" THEN "ok" ELSE "failed",
                                         !.reason  = IF out.kind = "ok" THEN "" ELSE out.msg,
                                         !.city    = ResolvedCity(user_query)]
                      ELSE [calls EXCEPT !.city = ResolvedCity(user_query)]
    /\ trace' = Append(trace, "get_weather")
    /\ pc' = Edge("get_weather", query_type, response)
    /\ UNCHANGED <<user_query, query_type, retrieved_docs, response,
                   evaluation, result>>

GetRagResponse ==
    /\ pc = "get_rag_response"
    /\ \E out \in SearchOutcomes :
          /\ retrieved_docs' = RetrievedDocsFor(out)
          /\ calls' = [calls EXCEPT !.search = IF out.kind = "ok" THEN "ok" ELSE "failed",
                                    !.reason = IF out.kind = "ok" THEN "" ELSE out.msg]
    /\ trace' = Append(trace, "get_rag_response")
    /\ pc' = Edge("get_rag_response", query_type, response)
    /\ UNCHANGED <<user_query, query_type, weather_data, response,
                   evaluation, result>>

GenerateResponse ==
    /\ pc = "generate_response"
    /\ \E out \in CompletionOutcomes :
          /\ response' = Generate(query_type, weather_data, retrieved_docs, user_query, out)
          /\ calls' = IF CallsCompletion(query_type, weather_data, retrieved_docs)
                      THEN [calls EXCEPT !.completion = out.kind,
                                         !.completions = @ + 1]
                      ELSE calls
    /\ trace' = Append(trace, "generate_response")
    /\ pc' = Edge("generate_response", query_type, response')
    /\ UNCHANGED <<user_query, query_type, weather_data, retrieved_docs,
                   evaluation, result>>

\* _evaluate_response: evaluate_response returns a dict in every case, so the
\* node's own except branch has nothing to catch
EvaluateResponseNode ==
    /\ pc = "evaluate_response"
    /\ \E raised \in EvaluatorOutcomes :
          /\ evaluation' = EvaluateResponse(user_query, response, query_type, raised)
          /\ calls' = [calls EXCEPT !.evaluator = IF raised = "" THEN "ok" ELSE "failed"]
    /\ trace' = Append(trace, "evaluate_response")
    /\ pc' = Edge("evaluate_response", query_type, response)
    /\ UNCHANGED <<user_query, query_type, weather_data, retrieved_docs,
                   response, result>>

\* process_query returns: the result dict when the graph reached END, the
\* error dict of its except branch when graph.invoke raised
PipelineResult ==
    IF pc = "return"
    THEN [query |-> user_query, query_type |-> query_type, response |-> response,
          evaluation |-> evaluation, weather_data |-> weather_data,
          retrieved_docs |-> retrieved_docs]
    ELSE [error |-> "Pipeline error: 'get_weather'", query |-> user_query,
          response |-> "Sorry, I encountered an error processing your request."]

ProcessQueryReturn ==
    /\ pc \in {"return", "raise"}
    /\ result' = PipelineResult
    /\ pc' = "done"
    /\ UNCHANGED <<user_query, query_type, weather_data, retrieved_docs,
                   response, evaluation, trace, calls>>

(***************************************************************************)
(* AIPipeline.upload_pdf: process_pdf_for_rag (the extraction of the text, *)
(* chunk_text with its default chunk_size and overlap, one document per    *)
(* chunk), add_documents, get_pdf_info.  The PDF reader is external: it    *)
(* gives the text of the pages or raises.  The upload is the call 1 of     *)
(* add_documents.                                                          *)
(***************************************************************************)
VARIABLES
    up_pc,       \* "extract", "chunk", "store", "done"
    up_file,     \* the uploaded file: whether the reader can read it, and its text
    up_result    \* the dict upload_pdf returns

uploadVars == <<up_pc, up_file, up_result>>

DefaultChunkSize == 1000
DefaultOverlap == 200

RECURSIVE Repeat(_, _)
Repeat(s, n) ==
    IF n = 0 THEN ""
    ELSE IF n = 1 THEN s
    ELSE LET h == Repeat(s, n \div 2)
         IN  IF n % 2 = 0 THEN h \o h ELSE h \o h \o s

\* the text extract_text_from_pdf returns: the text of each page and "\n"
SampleFileTexts ==
    {"\n",
     "AutoGen is a framework for multi-agent conversations.\n",
     Repeat("a", 900) \o "\n",
     Repeat("a", 2999) \o "\n",
     Repeat("a", 3000) \o "\n",
     Repeat(Repeat("a", 699) \o ".", 4) \o Repeat("a", 200) \o "\n",
     Repeat("Agents talk. ", 230) \o "Agents do.\n",
     "a" \o Repeat(" \n", 1499) \o "a",
     Repeat(" ", 2999) \o "\n"}

SampleFiles ==
    {[readable |-> TRUE, text |-> t] : t \in SampleFileTexts}
    \cup {[readable |-> FALSE, text |-> "EOF marker not found"]}

\* the points other uploads left in the collection
StoredBefore(n) ==
    UpsertRequest(BuildPoints(2, DocumentsOf(2, n),
                              EmbedDocuments([i \in 1..n |-> DocumentsOf(2, n)[i].content])))

\* documents for all the chunks but the last
ProcessedDocumentsDropsLast(chunks, source_name) ==
    [i \in 1..(Len(chunks) - 1) |->
        [content |-> chunks[i],
         metadata |-> [chunk_id |-> i - 1, source |-> source_name,
                       chunk_size |-> Len(chunks[i])],
         source |-> source_name]]

\* lines 64-75 of process_pdf_for_rag
ProcessedDocuments(chunks, source_name) ==
    [i \in 1..Len(chunks) |->
        [content |-> chunks[i],
         metadata |-> [chunk_id |-> i - 1, source |-> source_name,
                       chunk_size |-> Len(chunks[i])],
         source |-> source_name]]

PdfInfoOutcomes ==
    {[num_pages |-> 1, title |-> "Unknown", author |-> "Unknown", subject |-> "Unknown"],
     [error |-> "Error reading PDF info: EOF marker not found"]}

UploadInit ==
    /\ up_pc = "extract"
    /\ up_file \in SampleFiles
    /\ up_result = <<>>
    /\ \E n \in 0..MaxDocs : vs_points = StoredBefore(n)
    /\ ad_pc = [c \in AddCalls |-> "returned"]
    /\ ad_documents = [c \in AddCalls |-> <<>>]
    /\ ad_points = [c \in AddCalls |-> <<>>]
    /\ ad_result = [c \in AddCalls |-> <<>>]
    /\ sr_visible = {}
    /\ sr_result = <<>>
    /\ sr_top_k = 1
    /\ sr_limits = <<>>

\* extract_text_from_pdf, and the call of chunk_text(text)
UploadExtract ==
    /\ up_pc = "extract"
    /\ IF up_file.readable
       THEN /\ ck_pc' = "entry"
            /\ ck_input' = up_file.text
            /\ ck_size' = DefaultChunkSize
            /\ ck_overlap' = DefaultOverlap
            /\ ck_text' = ""
            /\ ck_start' = 0
            /\ ck_chunks' = <<>>
            /\ ck_seen' = {}
            /\ up_pc' = "chunk"
            /\ UNCHANGED up_result
       ELSE /\ up_result' = [success |-> FALSE,
                             error |-> "Error processing PDF: Error extracting text from PDF: "
                                       \o up_file.text]
            /\ up_pc' = "done"
            /\ UNCHANGED chunkVars
    /\ UNCHANGED <<up_file, storeVars>>

\* the steps of chunk_text inside process_pdf_for_rag
UploadChunkEnter ==
    /\ up_pc = "chunk"
    /\ ChunkTextEnter
    /\ UNCHANGED <<uploadVars, storeVars>>

UploadChunkIterate ==
    /\ up_pc = "chunk"
    /\ ChunkTextIterate
    /\ UNCHANGED <<uploadVars, storeVars>>

\* the documents of the chunks, and the call of add_documents(documents)
UploadDocuments ==
    /\ up_pc = "chunk"
    /\ ck_pc = "done"
    /\ ad_documents' = [ad_documents EXCEPT ![1] = ProcessedDocuments(ck_chunks, "uploaded_pdf")]
    /\ ad_pc' = [ad_pc EXCEPT ![1] = "entry"]
    /\ up_pc' = "store"
    /\ UNCHANGED <<up_file, up_result, chunkVars, vs_points, ad_points, ad_result,
                   sr_visible, sr_result, sr_top_k, sr_limits>>

\* the steps of add_documents inside upload_pdf
UploadEmbed ==
    /\ up_pc = "store"
    /\ AddDocumentsEmbed(1)
    /\ UNCHANGED <<uploadVars, chunkVars>>

UploadUpsert ==
    /\ up_pc = "store"
    /\ AddDocumentsUpsert(1)
    /\ UNCHANGED <<uploadVars, chunkVars>>

\* a return that reports success whatever add_documents did
UploadResultAlwaysSuccess(status, documents, outcome, pdf_info) ==
    [success |-> TRUE,
     documents_processed |-> Len(documents),
     documents_stored |-> IF status = "returned" THEN Len(outcome) ELSE Len(documents),
     pdf_info |-> pdf_info,
     source_name |-> "uploaded_pdf"]

\* lines 275-287: the success dict, or the dict of the except branch;
\* outcome is the ids add_documents returned or the message it raised
UploadResult(status, documents, outcome, pdf_info) ==
    IF status = "returned"
    THEN [success |-> TRUE,
          documents_processed |-> Len(documents),
          documents_stored |-> Len(outcome),
          pdf_info |-> pdf_info,
          source_name |-> "uploaded_pdf"]
    ELSE [success |-> FALSE, error |-> outcome]

\* lines 272-287: get_pdf_info and the return
UploadReturn ==
    /\ up_pc = "store"
    /\ ad_pc[1] \in {"returned", "raised"}
    /\ \E pdf_info \in PdfInfoOutcomes :
          up_result' = UploadResult(ad_pc[1], ad_documents[1], ad_result[1], pdf_info)
    /\ up_pc' = "done"
    /\ UNCHANGED <<up_file, chunkVars, storeVars>>

(***************************************************************************)
(* VectorStore._ensure_collection_exists and get_collection_info.  Several *)
(* instances of VectorStore use the same collection of the same store.     *)
(* The store is external: a request reaches it or fails to; get_collection *)
(* raises for a collection that does not exist; create_collection raises   *)
(* with a message saying the collection already exists when it does.       *)
(***************************************************************************)
VARIABLES
    coll,         \* the collection in the store: whether it exists, its vector size and point count
    en_pc,        \* per instance, _ensure_collection_exists: "get", "create", "done", "raised"
    en_log,       \* per instance: the line the last run of _ensure_collection_exists printed
    en_error,     \* per instance: the message of the exception the last run raised
    gi_pc,        \* per instance, get_collection_info: "idle", "read", "ensure", "returned"
    gi_result,    \* per instance: the dict get_collection_info returned
    gi_ensures    \* per instance: the calls of _ensure_collection_exists in this call

collVars == <<coll, en_pc, en_log, en_error, gi_pc, gi_result, gi_ensures>>

NumInstances == 2
Instances == 1..NumInstances

collection_name == "ai_pipeline_docs"

\* line 36: the vector size _ensure_collection_exists asks for
VectorSize == 768

Unreachable == "Connection refused"

\* what the store answers to create_collection for a collection it has
AlreadyExistsError == "Wrong input: Collection " \o collection_name \o " already exists!"

Reach == {"ok", "unreachable"}

\* a handler that lets every error of create_collection through
HandlesCreateErrorNever(create_error) == FALSE

\* line 42
HandlesCreateError(create_error) == Contains(create_error, "already exists")

\* the store has no collection of that name
Absent == [exists |-> FALSE, size |-> 0, points_count |-> 0]

CollInit ==
    /\ coll \in {Absent}
                \cup [exists : {TRUE}, size : {VectorSize, VectorSize \div 2},
                      points_count : {0, 3}]
    /\ en_pc = [i \in Instances |-> "get"]
    /\ en_log = [i \in Instances |-> ""]
    /\ en_error = [i \in Instances |-> ""]
    /\ gi_pc = [i \in Instances |-> "idle"]
    /\ gi_result = [i \in Instances |-> <<>>]
    /\ gi_ensures = [i \in Instances |-> 0]

\* lines 26-30: get_collection returns, or raises and the except branch is entered
EnsureGet(i) ==
    /\ en_pc[i] = "get"
    /\ \E reach \in Reach :
          IF reach = "ok" /\ coll.exists
          THEN /\ en_pc' = [en_pc EXCEPT ![i] = "done"]
               /\ en_log' = [en_log EXCEPT ![i] = "already exists"]
          ELSE /\ en_pc' = [en_pc EXCEPT ![i] = "create"]
               /\ en_log' = en_log
    /\ UNCHANGED <<coll, en_error, gi_pc, gi_result, gi_ensures>>

\* lines 32-45: create_collection, and the handling of its exception
EnsureCreate(i) ==
    /\ en_pc[i] = "create"
    /\ \E reach \in Reach :
          IF reach = "ok" /\ ~coll.exists
          THEN /\ coll' = [exists |-> TRUE, size |-> VectorSize, points_count |-> 0]
               /\ en_pc' = [en_pc EXCEPT ![i] = "done"]
               /\ en_log' = [en_log EXCEPT ![i] = "created"]
               /\ en_error' = en_error
          ELSE LET create_error == IF reach = "ok" THEN AlreadyExistsError ELSE Unreachable
               IN  /\ coll' = coll
                   /\ IF HandlesCreateError(create_error)
                      THEN /\ en_pc' = [en_pc EXCEPT ![i] = "done"]
                           /\ en_log' = [en_log EXCEPT ![i] = "already exists (handled)"]
                           /\ en_error' = en_error
                      ELSE /\ en_pc' = [en_pc EXCEPT ![i] = "raised"]
                           /\ en_log' = en_log
                           /\ en_error' = [en_error EXCEPT ![i] = create_error]
    /\ UNCHANGED <<gi_pc, gi_result, gi_ensures>>

\* a call of get_collection_info on an instance that has been constructed
InfoCall(i) ==
    /\ gi_pc[i] \in {"idle", "returned"}
    /\ en_pc[i] = "done"
    /\ gi_pc' = [gi_pc EXCEPT ![i] = "read"]
    /\ gi_result' = [gi_result EXCEPT ![i] = <<>>]
    /\ gi_ensures' = [gi_ensures EXCEPT ![i] = 0]
    /\ UNCHANGED <<coll, en_pc, en_log, en_error>>

\* a dict that says "active" whether or not the collection could be ensured
InfoAfterEnsureAlwaysActive(ensured) ==
    [name |-> collection_name, vectors_count |-> 0, points_count |-> 0,
     status |-> "active"]

\* lines 130-143: the dict returned after the call of _ensure_collection_exists
InfoAfterEnsure(ensured) ==
    IF ensured
    THEN [name |-> collection_name, vectors_count |-> 0, points_count |-> 0,
          status |-> "active"]
    ELSE [name |-> collection_name, vectors_count |-> 0, points_count |-> 0,
          status |-> "available", message |-> "Collection ready for use"]

\* lines 117-129: the collection is read and its dict returned; or the read
\* (the request, or an attribute of its reply) raises and
\* _ensure_collection_exists is called
InfoRead(i) ==
    /\ gi_pc[i] = "read"
    /\ \E read \in Reach :
          IF read = "ok" /\ coll.exists
          THEN /\ gi_result' = [gi_result EXCEPT
                                   ![i] = [name |-> collection_name,
                                           vectors_count |-> coll.points_count,
                                           points_count |-> coll.points_count,
                                           status |-> "active"]]
               /\ gi_pc' = [gi_pc EXCEPT ![i] = "returned"]
               /\ UNCHANGED <<en_pc, en_log, en_error, gi_ensures>>
          ELSE /\ gi_pc' = [gi_pc EXCEPT ![i] = "ensure"]
               /\ gi_ensures' = [gi_ensures EXCEPT ![i] = @ + 1]
               /\ en_pc' = [en_pc EXCEPT ![i] = "get"]
               /\ en_log' = [en_log EXCEPT ![i] = ""]
               /\ en_error' = [en_error EXCEPT ![i] = ""]
               /\ UNCHANGED gi_result
    /\ UNCHANGED coll

\* lines 130-143: the return after _ensure_collection_exists returned or raised
InfoReturn(i) ==
    /\ gi_pc[i] = "ensure"
    /\ en_pc[i] \in {"done", "raised"}
    /\ gi_result' = [gi_result EXCEPT ![i] = InfoAfterEnsure(en_pc[i] = "done")]
    /\ gi_pc' = [gi_pc EXCEPT ![i] = "returned"]
    /\ en_pc' = [en_pc EXCEPT ![i] = "done"]
    /\ UNCHANGED <<coll, en_log, en_error, gi_ensures>>

(***************************************************************************)
(* One call of EvaluationService.evaluate_response                        *)
(***************************************************************************)
VARIABLES
    ev_pc,        \* "call", "done"
    ev_query,     \* the argument user_query
    ev_response,  \* the argument response
    ev_type,      \* the argument query_type
    ev_result     \* the dict returned

evalVars == <<ev_pc, ev_query, ev_response, ev_type, ev_result>>

MaxResponseLen == 3

EvalQueries ==
    {"", "a", "A b", "temperature wind humidity in Paris", "Explain the AutoGen framework"}

EvalResponses ==
    TextsUpTo({"a", " ", "*", "\n"}, MaxResponseLen)
    \cup {"Error: service unavailable",
          "Temperature unavailable",
          "The document chunk Failed",
          "# Title",
          "Temperature 21^C, wind 3 m/s, humidity 40% in Paris",
          "## Title\n\n- temperature\n- wind\n\n1. humidity in paris",
          "The document says agents talk.",
          Repeat("word ", 60),
          Repeat("the framework ", 100),
          AutoGenAnswer,
          UploadFirst}

EvalTypes == {"weather", "rag", "document", "", "other"}

EvalInit ==
    /\ ev_pc = "call"
    /\ ev_query \in EvalQueries
    /\ ev_response \in EvalResponses
    /\ ev_type \in EvalTypes
    /\ ev_result = <<>>

EvaluateCall ==
    /\ ev_pc = "call"
    /\ \E raised \in EvaluatorOutcomes :
          ev_result' = EvaluateResponse(ev_query, ev_response, ev_type, raised)
    /\ ev_pc' = "done"
    /\ UNCHANGED <<ev_query, ev_response, ev_type>>

(***************************************************************************)
(* One call of EuriaiService.process_weather_query or process_rag_query    *)
(***************************************************************************)
VARIABLES
    gen_pc,        \* "call", "done"
    gen_kind,      \* "weather": process_weather_query; "rag": process_rag_query
    gen_context,   \* the argument weather_data or retrieved_docs
    gen_query,     \* the argument user_query
    gen_out,       \* what the completion call does in this call
    gen_response   \* the text returned

genVars == <<gen_pc, gen_kind, gen_context, gen_query, gen_out, gen_response>>

MaxGenDocs == 4

\* retrieved documents: short, with newlines, of 250 and of 450 characters,
\* and a dict without the key "content"
GenDocs ==
    {Doc("Agents are reusable.", 77),
     Doc(Repeat("agents talk\n", 20) \o "0123456789", 70),
     Doc(Repeat("conversable ", 37) \o "agent.", 65),
     [source |-> "uploaded_pdf", score |-> 50]}

RECURSIVE SeqsUpTo(_, _)
SeqsUpTo(S, n) ==
    IF n = 0 THEN {<<>>}
    ELSE LET shorter == SeqsUpTo(S, n - 1)
         IN  shorter \cup {Append(q, x) : q \in {t \in shorter : Len(t) = n - 1}, x \in S}

GenQueries == {"What do agents do?", "Explain the AutoGen framework"}

GenWeatherData == {SampleSnapshot, [city |-> "Paris"]}

GenInit ==
    /\ gen_pc = "call"
    /\ gen_kind \in {"weather", "rag"}
    /\ gen_context \in IF gen_kind = "weather" THEN GenWeatherData
                       ELSE SeqsUpTo(GenDocs, MaxGenDocs) \ {<<>>}
    /\ gen_query \in GenQueries
    /\ gen_out \in CompletionOutcomes
    /\ gen_response = ""

GenerateWeather ==
    /\ gen_pc = "call"
    /\ gen_kind = "weather"
    /\ gen_response' = ProcessWeatherQuery(gen_context, gen_query, gen_out)
    /\ gen_pc' = "done"
    /\ UNCHANGED <<gen_kind, gen_context, gen_query, gen_out>>

GenerateRag ==
    /\ gen_pc = "call"
    /\ gen_kind = "rag"
    /\ gen_response' = ProcessRagQuery(gen_context, gen_query, gen_out)
    /\ gen_pc' = "done"
    /\ UNCHANGED <<gen_kind, gen_context, gen_query, gen_out>>

(***************************************************************************)
(* One call of AIPipeline._extract_city_from_query                         *)
(***************************************************************************)
VARIABLES
    ct_pc,      \* "call", "done"
    ct_query,   \* the argument query
    ct_city     \* the city returned

cityVars == <<ct_pc, ct_query, ct_city>>

MaxCityWords == 3

CityWords ==
    {"weather", "in", "Paris", "oslo_2", "temperature", "for", "forecast", "pune?"}

RECURSIVE JoinWords(_)
JoinWords(words) ==
    IF Len(words) = 0 THEN ""
    ELSE IF Len(words) = 1 THEN words[1]
    ELSE words[1] \o " " \o JoinWords(Tail(words))

CityQueries ==
    {JoinWords(w) : w \in SeqsUpTo(CityWords, MaxCityWords)}
    \cup SampleQueries
    \cup {"Weather in NEW YORK and london", "how warm is springfield",
          "the temperature in-door", "windy in bhopal today"}

CityInit ==
    /\ ct_pc = "call"
    /\ ct_query \in CityQueries
    /\ ct_city = ""

ExtractCity ==
    /\ ct_pc = "call"
    /\ ct_city' = ExtractCityFromQuery(ct_query)
    /\ ct_pc' = "done"
    /\ UNCHANGED ct_query

(***************************************************************************)
(* Several calls of AIPipeline.process_query on one pipeline instance,     *)
(* interleaved node by node.  The instance holds the services and the      *)
(* compiled graph (__init__); a call builds its AgentState as a local and  *)
(* graph.invoke works on it.  The collection of the vector store is shared *)
(* by the calls and by the uploads of other users.  The weather API, the   *)
(* store, the completion call (agent.run) and the evaluator answer each    *)
(* call with a response of their own.                                      *)
(***************************************************************************)
VARIABLES
    rn_pc,       \* per run: "call", the node the graph runs next, "return", "done"
    rn_query,    \* per run: the argument user_query
    rn_state,    \* the AgentState dicts, by the place that holds them
    rn_heard,    \* per run: the responses the external services gave to its calls
    rn_result,   \* per run: what process_query returned (<<>> until it has)
    rn_index     \* the ranked contents of the collection, shared by the runs

runVars == <<rn_pc, rn_query, rn_state, rn_heard, rn_result, rn_index>>

NumRuns == 2

Runs == 1..NumRuns

\* an AgentState held by the instance, one for all runs
AgentStateOnInstance(r) == 1

\* the place of the AgentState of a run: initial_state is a local of the
\* call of process_query, one per run
AgentStateOf(r) == r

\* lines 235-242
InitialState(query) ==
    [user_query |-> query, query_type |-> "", weather_data |-> <<>>,
     retrieved_docs |-> <<>>, response |-> "", evaluation |-> <<>>]

\* what a node makes of the state it is given and of the response of the
\* external service it calls
NodeStep(node, st, out) ==
    CASE node = "classify_query" ->
             [st EXCEPT !.query_type = ClassifyQueryType(st.user_query)]
      [] node = "get_weather" ->
             [st EXCEPT !.weather_data = WeatherDataFor(st.user_query, out)]
      [] node = "get_rag_response" ->
             [st EXCEPT !.retrieved_docs = RetrievedDocsFor(out)]
      [] node = "generate_response" ->
             [st EXCEPT !.response = Generate(st.query_type, st.weather_data,
                                              st.retrieved_docs, st.user_query, out)]
      [] node = "evaluate_response" ->
             [st EXCEPT !.evaluation = EvaluateResponse(st.user_query, st.response,
                                                        st.query_type, out.raised)]

\* lines 247-254
ResultDict(st) ==
    [query |-> st.user_query, query_type |-> st.query_type, response |-> st.response,
     evaluation |-> st.evaluation, weather_data |-> st.weather_data,
     retrieved_docs |-> st.retrieved_docs]

\* no call made, so nothing heard
Unheard == [kind |-> "none"]

NothingHeard == [n \in {"get_weather", "get_rag_response", "generate_response",
                        "evaluate_response"} |-> Unheard]

\* whether the node, given the state, calls its external service
NodeCalls(node, st) ==
    CASE node = "classify_query"    -> FALSE
      [] node = "get_weather"       -> MakesRequest(st.user_query)
      [] node = "get_rag_response"  -> TRUE
      [] node = "generate_response" ->
             CallsCompletion(st.query_type, st.weather_data, st.retrieved_docs)
      [] node = "evaluate_response" -> TRUE

\* the responses the external service of the node can give now
Responses(node) ==
    CASE node = "get_weather" ->
             {o \in HttpOutcomes : o.kind \in {"ok", "request"}}
      [] node = "get_rag_response" ->
             {[kind |-> "ok", ranked |-> rn_index]}
      [] node = "generate_response" ->
             {[kind |-> "ok", content |-> "no"], [kind |-> "raise"]}
      [] node = "evaluate_response" ->
             {[kind |-> "evaluator", raised |-> ""]}
      [] OTHER -> {Unheard}

RunQueries == {"rain?", "mumbai news"}

RunsInit ==
    /\ rn_pc = [r \in Runs |-> "call"]
    /\ rn_query \in [Runs -> RunQueries]
    /\ rn_state = [r \in Runs |-> InitialState("")]
    /\ rn_heard = [r \in Runs |-> NothingHeard]
    /\ rn_result = [r \in Runs |-> <<>>]
    /\ rn_index = <<>>

\* process_query builds the AgentState and invokes the graph
RunCall(r) ==
    /\ rn_pc[r] = "call"
    /\ rn_state' = [rn_state EXCEPT ![AgentStateOf(r)] = InitialState(rn_query[r])]
    /\ rn_pc' = [rn_pc EXCEPT ![r] = "classify_query"]
    /\ UNCHANGED <<rn_query, rn_heard, rn_result, rn_index>>

\* the graph runs the next node of the run
RunNode(r) ==
    /\ rn_pc[r] \in {"classify_query", "get_weather", "get_rag_response",
                     "generate_response", "evaluate_response"}
    /\ LET node == rn_pc[r]
           st   == rn_state[AgentStateOf(r)]
       IN  \E out \in IF NodeCalls(node, st) THEN Responses(node) ELSE {Unheard} :
           \E after \in {NodeStep(node, st, out)} :
               /\ rn_state' = [rn_state EXCEPT ![AgentStateOf(r)] = after]
               /\ rn_heard' = IF node = "classify_query" THEN rn_heard
                              ELSE [rn_heard EXCEPT ![r][node] = out]
               /\ rn_pc' = [rn_pc EXCEPT ![r] = Edge(node, after.query_type, after.response)]
    /\ UNCHANGED <<rn_query, rn_result, rn_index>>

\* graph.invoke returned: process_query returns the dict of the final state
RunReturn(r) ==
    /\ rn_pc[r] = "return"
    /\ rn_result' = [rn_result EXCEPT ![r] = ResultDict(rn_state[AgentStateOf(r)])]
    /\ rn_pc' = [rn_pc EXCEPT ![r] = "done"]
    /\ UNCHANGED <<rn_query, rn_state, rn_heard, rn_index>>

\* an upload of another user adds a point to the collection
IndexGrows ==
    /\ rn_index = <<>>
    /\ rn_index' = <<Doc("Agents are reusable.", 77)>>
    /\ UNCHANGED <<rn_pc, rn_query, rn_state, rn_heard, rn_result>>

\* the result of the call process_query(query) made alone, the external
\* services giving the responses heard; <<>> when a call the run makes alone
\* is not among them
RECURSIVE AloneFrom(_, _, _)
AloneFrom(node, st, heard) ==
    IF node = "return" THEN ResultDict(st)
    ELSE IF NodeCalls(node, st) /\ heard[node] = Unheard THEN <<>>
    ELSE CHOOSE alone \in
             {AloneFrom(Edge(node, after.query_type, after.response), after, heard) :
                 after \in {NodeStep(node, st, IF node = "classify_query" THEN Unheard
                                               ELSE heard[node])}} : TRUE

Alone(query, heard) == AloneFrom("classify_query", InitialState(query), heard)

vars == <<pipeVars, chunkVars, storeVars, uploadVars, collVars, evalVars, genVars,
         cityVars, runVars>>

\* what a run of process_query, a call of chunk_text, the calls on the
\* collection, and an upload leave alone
NotPipe == <<chunkVars, storeVars, uploadVars, collVars, evalVars, genVars, cityVars, runVars>>
NotChunk == <<pipeVars, storeVars, uploadVars, collVars, evalVars, genVars, cityVars, runVars>>
NotStore == <<pipeVars, chunkVars, uploadVars, collVars, evalVars, genVars, cityVars, runVars>>
NotUpload == <<pipeVars, collVars, evalVars, genVars, cityVars, runVars>>
NotColl == <<pipeVars, chunkVars, storeVars, uploadVars, evalVars, genVars, cityVars, runVars>>

NotEval == <<pipeVars, chunkVars, storeVars, uploadVars, collVars, genVars, cityVars, runVars>>
NotGen == <<pipeVars, chunkVars, storeVars, uploadVars, collVars, evalVars, cityVars, runVars>>
NotCity == <<pipeVars, chunkVars, storeVars, uploadVars, collVars, evalVars, genVars, runVars>>
NotRuns == <<pipeVars, chunkVars, storeVars, uploadVars, collVars, evalVars, genVars, cityVars>>

\* no call of evaluate_response under way
EvalIdle ==
    /\ ev_pc = "done" /\ ev_query = "" /\ ev_response = "" /\ ev_type = ""
    /\ ev_result = <<>>

\* no call of the response generator under way
GenIdle ==
    /\ gen_pc = "done" /\ gen_kind = "rag" /\ gen_context = <<>> /\ gen_query = ""
    /\ gen_out = [kind |-> "raise"] /\ gen_response = ""

\* no call of _extract_city_from_query under way
CityIdle == ct_pc = "done" /\ ct_query = "" /\ ct_city = ""

\* no run of the interleaved calls of process_query under way
RunsIdle ==
    /\ rn_pc = [r \in Runs |-> "done"]
    /\ rn_query = [r \in Runs |-> ""]
    /\ rn_state = [r \in Runs |-> InitialState("")]
    /\ rn_heard = [r \in Runs |-> NothingHeard]
    /\ rn_result = [r \in Runs |-> <<>>]
    /\ rn_index = <<>>

\* nothing but the named part under way
OthersIdle == EvalIdle /\ GenIdle /\ CityIdle /\ RunsIdle

\* no instance under construction and no call of get_collection_info under way
CollIdle ==
    /\ coll = [exists |-> TRUE, size |-> VectorSize, points_count |-> 0]
    /\ en_pc = [i \in Instances |-> "done"]
    /\ en_log = [i \in Instances |-> ""]
    /\ en_error = [i \in Instances |-> ""]
    /\ gi_pc = [i \in Instances |-> "idle"]
    /\ gi_result = [i \in Instances |-> <<>>]
    /\ gi_ensures = [i \in Instances |-> 0]

\* no call of upload_pdf under way
UploadIdle == up_pc = "done" /\ up_file = [readable |-> FALSE, text |-> ""] /\ up_result = <<>>

\* no call of add_documents and no search under way, on an empty collection
StoreIdle ==
    /\ vs_points = {}
    /\ ad_pc = [c \in AddCalls |-> "returned"]
    /\ ad_documents = [c \in AddCalls |-> <<>>]
    /\ ad_points = [c \in AddCalls |-> <<>>]
    /\ ad_result = [c \in AddCalls |-> <<>>]
    /\ sr_visible = {}
    /\ sr_result = <<>>
    /\ sr_top_k = 1
    /\ sr_limits = <<>>

\* no call of chunk_text under way
ChunkIdle ==
    /\ ck_pc = "done" /\ ck_input = "" /\ ck_size = 1 /\ ck_overlap = 0
    /\ ck_text = "" /\ ck_start = 0 /\ ck_chunks = <<>> /\ ck_seen = {}

\* no run of process_query under way
PipeIdle ==
    /\ pc = "done" /\ user_query = "" /\ query_type = "" /\ weather_data = <<>>
    /\ retrieved_docs = <<>> /\ response = "" /\ evaluation = <<>>
    /\ result = <<>> /\ trace = <<>> /\ calls = NoCalls

(***************************************************************************)
(* Spec: one run of process_query                                          *)
(***************************************************************************)
Init == PipeInit /\ ChunkIdle /\ StoreIdle /\ UploadIdle /\ CollIdle /\ OthersIdle

Next ==
    \/ ClassifyQuery       /\ UNCHANGED NotPipe
    \/ GetWeather          /\ UNCHANGED NotPipe
    \/ GetRagResponse      /\ UNCHANGED NotPipe
    \/ GenerateResponse    /\ UNCHANGED NotPipe
    \/ EvaluateResponseNode /\ UNCHANGED NotPipe
    \/ ProcessQueryReturn  /\ UNCHANGED NotPipe

Spec == Init /\ [][Next]_vars

(***************************************************************************)
(* SpecChunk: one call of chunk_text                                       *)
(***************************************************************************)
InitChunk == ChunkInit /\ PipeIdle /\ StoreIdle /\ UploadIdle /\ CollIdle /\ OthersIdle

NextChunk ==
    \/ ChunkTextEnter   /\ UNCHANGED NotChunk
    \/ ChunkTextIterate /\ UNCHANGED NotChunk

SpecChunk == InitChunk /\ [][NextChunk]_vars

(***************************************************************************)
(* SpecStore: calls of add_documents and searches on one collection        *)
(***************************************************************************)
InitStore == StoreInit /\ PipeIdle /\ ChunkIdle /\ UploadIdle /\ CollIdle /\ OthersIdle

NextStore ==
    \/ \E c \in AddCalls : AddDocumentsEmbed(c) /\ UNCHANGED NotStore
    \/ \E c \in AddCalls : AddDocumentsUpsert(c) /\ UNCHANGED NotStore
    \/ Search /\ UNCHANGED NotStore

SpecStore == InitStore /\ [][NextStore]_vars

(***************************************************************************)
(* SpecUpload: one call of upload_pdf                                      *)
(***************************************************************************)
InitUpload == UploadInit /\ ChunkIdle /\ PipeIdle /\ CollIdle /\ OthersIdle

NextUpload ==
    \/ UploadExtract      /\ UNCHANGED NotUpload
    \/ UploadChunkEnter   /\ UNCHANGED NotUpload
    \/ UploadChunkIterate /\ UNCHANGED NotUpload
    \/ UploadDocuments    /\ UNCHANGED NotUpload
    \/ UploadEmbed        /\ UNCHANGED NotUpload
    \/ UploadUpsert       /\ UNCHANGED NotUpload
    \/ UploadReturn       /\ UNCHANGED NotUpload

SpecUpload == InitUpload /\ [][NextUpload]_vars

(***************************************************************************)
(* SpecColl: instances of VectorStore on one collection                    *)
(***************************************************************************)
InitColl == CollInit /\ PipeIdle /\ ChunkIdle /\ StoreIdle /\ UploadIdle /\ OthersIdle

NextColl ==
    \/ \E i \in Instances : EnsureGet(i) /\ UNCHANGED NotColl
    \/ \E i \in Instances : EnsureCreate(i) /\ UNCHANGED NotColl
    \/ \E i \in Instances : InfoCall(i) /\ UNCHANGED NotColl
    \/ \E i \in Instances : InfoRead(i) /\ UNCHANGED NotColl
    \/ \E i \in Instances : InfoReturn(i) /\ UNCHANGED NotColl

SpecColl == InitColl /\ [][NextColl]_vars

(***************************************************************************)
(* SpecEval: one call of evaluate_response                                 *)
(***************************************************************************)
InitEval ==
    /\ EvalInit /\ GenIdle /\ CityIdle /\ RunsIdle
    /\ PipeIdle /\ ChunkIdle /\ StoreIdle /\ UploadIdle /\ CollIdle

NextEval == EvaluateCall /\ UNCHANGED NotEval

SpecEval == InitEval /\ [][NextEval]_vars

(***************************************************************************)
(* SpecGen: one call of the response generator                             *)
(***************************************************************************)
InitGen ==
    /\ GenInit /\ EvalIdle /\ CityIdle /\ RunsIdle
    /\ PipeIdle /\ ChunkIdle /\ StoreIdle /\ UploadIdle /\ CollIdle

NextGen ==
    \/ GenerateWeather /\ UNCHANGED NotGen
    \/ GenerateRag     /\ UNCHANGED NotGen

SpecGen == InitGen /\ [][NextGen]_vars

(***************************************************************************)
(* SpecCity: one call of _extract_city_from_query                          *)
(***************************************************************************)
InitCity ==
    /\ CityInit /\ EvalIdle /\ GenIdle /\ RunsIdle
    /\ PipeIdle /\ ChunkIdle /\ StoreIdle /\ UploadIdle /\ CollIdle

NextCity == ExtractCity /\ UNCHANGED NotCity

SpecCity == InitCity /\ [][NextCity]_vars

(***************************************************************************)
(* SpecRuns: interleaved calls of process_query on one instance            *)
(***************************************************************************)
InitRuns ==
    /\ RunsInit /\ EvalIdle /\ GenIdle /\ CityIdle
    /\ PipeIdle /\ ChunkIdle /\ StoreIdle /\ UploadIdle /\ CollIdle

NextRuns ==
    \/ \E r \in Runs : RunCall(r)   /\ UNCHANGED NotRuns
    \/ \E r \in Runs : RunNode(r)   /\ UNCHANGED NotRuns
    \/ \E r \in Runs : RunReturn(r) /\ UNCHANGED NotRuns
    \/ IndexGrows /\ UNCHANGED NotRuns

SpecRuns == InitRuns /\ [][NextRuns]_vars

(***************************************************************************)
(* Properties of a run of process_query                                    *)
(***************************************************************************)
IsPrefix(t, s) == Len(t) <= Len(s) /\ SubSeq(s, 1, Len(t)) = t

StageOrders ==
    {<<"classify_query", "get_weather", "generate_response", "evaluate_response">>,
     <<"classify_query", "get_rag_response", "generate_response", "evaluate_response">>}

ScoreKeys == {"accuracy", "relevance", "completeness", "clarity"}

\* the response is one of the texts the pipeline produces instead of an answer
IsDegradedResponse ==
    \/ Contains(response, "couldn't get weather information")
    \/ Contains(response, "fallback response")
    \/ response = UploadFirst

\* C1: in every run the stages execute in the order classify, exactly one of
\* weather fetch and document retrieval, generate, evaluate, done; no stage
\* runs twice, and a finished run has run evaluate right after generate,
\* whatever the generated response is.
C1_StagesRunInFixedOrder ==
    /\ \E order \in StageOrders : IsPrefix(trace, order)
    /\ pc \in {"return", "done"} => trace \in StageOrders
    /\ pc \notin {"return", "done", "raise"} => pc \notin {trace[i] : i \in 1..Len(trace)}

C1_Witness ==
    /\ pc = "done"
    /\ IsDegradedResponse
    /\ trace[3] = "generate_response" /\ trace[4] = "evaluate_response"

\* C2: process_query never raises: graph.invoke does not raise, and the value
\* returned holds query, query_type, response and evaluation, for every query
\* and every way the weather fetch, the vector search, the completion call and
\* the evaluator fail.
C2_ProcessQueryReturnsPipelineResult ==
    /\ pc # "raise"
    /\ pc = "done" =>
          /\ {"query", "query_type", "response", "evaluation"} \subseteq DOMAIN result
          /\ result.query = user_query
          /\ result.evaluation # <<>>

C2_Witness ==
    /\ pc = "done"
    /\ calls.search = "failed" /\ calls.completion = "raise" /\ calls.evaluator = "failed"
    /\ "evaluation" \in DOMAIN result

\* C3: when the weather fetch of a weather query fails, weather_data is an
\* error value, the response holds "couldn't get weather information" and the
\* reason of the failure, and the evaluation holds four integer scores in 1..5.
C3_FailedFetchYieldsApologyAndScores ==
    (pc = "done" /\ query_type = "weather" /\ calls.weather = "failed") =>
        /\ "error" \in DOMAIN result.weather_data
        /\ Contains(result.weather_data.error, calls.reason)
        /\ Contains(result.response, "couldn't get weather information")
        /\ Contains(result.response, calls.reason)
        /\ calls.evaluator # "none"
        /\ ScoreKeys \subseteq DOMAIN result.evaluation
        /\ \A k \in ScoreKeys : result.evaluation[k] \in 1..5

C3_Witness ==
    /\ pc = "done"
    /\ user_query = "What's the weather in Paris?"
    /\ calls.weather = "failed" /\ calls.reason = "Read timed out."
    /\ calls.evaluator = "ok"
    /\ result.evaluation.accuracy = 2

SaysUploadFirst(text) ==
    /\ Contains(text, "enough information in my knowledge base")
    /\ Contains(text, "upload a PDF document first")

HasWeatherKeyword(text) ==
    \E t \in {Lower(text)} : \E i \in 1..Len(t), j \in 1..Len(t) :
        SubSeq(t, i, j) \in {weather_keywords[k] : k \in 1..Len(weather_keywords)}

\* C5 as stated: a query with a weather keyword is typed weather and every
\* other query is typed document.
C5_OtherQueriesAreTypedDocument ==
    pc = "done" =>
        result.query_type = IF HasWeatherKeyword(user_query) THEN "weather" ELSE "document"

\* C5 as amended: a query with a weather keyword in its lower-cased text is
\* typed weather and every other query is typed rag, from classification on
\* and in the result.
C5_OtherQueriesAreTypedRag ==
    /\ pc # "classify_query" =>
          query_type = IF HasWeatherKeyword(user_query) THEN "weather" ELSE "rag"
    /\ pc = "done" =>
          result.query_type = IF HasWeatherKeyword(user_query) THEN "weather" ELSE "rag"

C5_Witness ==
    /\ pc = "done"
    /\ user_query = "Explain the AutoGen framework"
    /\ result.query_type = "rag"
    /\ result.response = UploadFirst

(***************************************************************************)
(* Properties of chunk_text                                                *)
(***************************************************************************)
\* C6: chunk_text terminates for every text when 0 <= overlap < chunk_size.
C6_ChunkTextTerminates ==
    (0 <= ck_overlap /\ ck_overlap < ck_size) => ~ChunkTextRunsForever

\* C7: the empty text gives no chunk, and a text that is not empty (after
\* cleaning) and no longer than chunk_size gives exactly one chunk, the
\* cleaned text.
C7_ShortTextGivesOneChunk ==
    ck_pc = "done" =>
        /\ ck_input = "" => ck_chunks = <<>>
        /\ (CleanText(ck_input) # "" /\ Len(ck_input) <= ck_size) =>
              ck_chunks = <<CleanText(ck_input)>>

\* chunk[overlap:]
DropOverlap(chunk, overlap) == SubSeq(chunk, overlap + 1, Len(chunk))

\* the first chunk followed by every later chunk without its first overlap
\* characters
RECURSIVE Reassemble(_, _, _)
Reassemble(chunks, overlap, i) ==
    IF i > Len(chunks) THEN ""
    ELSE (IF i = 1 THEN chunks[i] ELSE DropOverlap(chunks[i], overlap))
         \o Reassemble(chunks, overlap, i + 1)

\* C8: for overlap < chunk_size the chunks, each after the first without its
\* first overlap characters, concatenate to the cleaned text.
C8_ChunksReassembleToCleanText ==
    (ck_pc = "done" /\ ck_input # "" /\ ck_overlap < ck_size) =>
        Reassemble(ck_chunks, ck_overlap, 1) = ck_text

\* C9: a call with overlap >= chunk_size does not run forever.
C9_OverlapNotBelowSizeDoesNotRunForever ==
    ck_overlap >= ck_size => ~ChunkTextRunsForever

(***************************************************************************)
(* Properties of add_documents                                             *)
(***************************************************************************)
\* the points a call of add_documents builds from its documents
PointIdsOf(c) == {<<c, i>> : i \in 1..Len(ad_documents[c])}

\* of the given points, the ids of those that call c made
IdsFrom(points, c) == {p.id : p \in {q \in points : q.id[1] = c}}

\* C10: the points of a call of add_documents are in the collection all or
\* none: a call that raised, for the embedding or for the storage, left none
\* of its points; a call that returned ids stored a point for every document;
\* and the collection as a search read it held none or all of a call's points.
C10_AddDocumentsIsAllOrNothing ==
    \A c \in AddCalls :
        /\ IdsFrom(vs_points, c) \in {{}, PointIdsOf(c)}
        /\ IdsFrom(sr_visible, c) \in {{}, PointIdsOf(c)}
        /\ ad_pc[c] = "raised" =>
              /\ IdsFrom(vs_points, c) = {}
              /\ ad_result[c] \notin Seq(PointIdsOf(c))
        /\ ad_pc[c] = "returned" =>
              /\ IdsFrom(vs_points, c) = PointIdsOf(c)
              /\ Len(ad_result[c]) = Len(ad_documents[c])
        /\ ad_pc[c] \in {"entry", "upsert"} => IdsFrom(vs_points, c) = {}

C10_Witness ==
    /\ ad_pc[1] = "returned" /\ Len(ad_documents[1]) = MaxDocs
    /\ ad_pc[2] = "raised" /\ Len(ad_points[2]) = MaxDocs
    /\ IdsFrom(sr_visible, 1) = PointIdsOf(1)
    /\ Len(sr_result) = MaxTopK

(***************************************************************************)
(* Properties of upload_pdf                                                *)
(***************************************************************************)
\* chunk_text has been called by the upload
ChunkingStarted == ck_size = DefaultChunkSize

\* embed_documents raised in the upload's call of add_documents
EmbeddingFailed == ad_pc[1] = "raised" /\ ad_points[1] = <<>>

\* C11: the stages of an upload run in the order extraction, chunking,
\* embedding, upsert; when the extraction or the embedding fails no later
\* stage runs, the collection holds no point of the upload, and upload_pdf
\* returns success = False with the error.
C11_FailedUploadStoresNothing ==
    /\ up_pc = "extract" => ~ChunkingStarted /\ ad_pc[1] = "returned" /\ ad_documents[1] = <<>>
    /\ up_pc = "chunk" => up_file.readable /\ ChunkingStarted
                          /\ ad_pc[1] = "returned" /\ ad_documents[1] = <<>>
    /\ up_pc = "store" => up_file.readable /\ ck_pc = "done"
    /\ ad_pc[1] \in {"entry", "upsert", "raised"} => ck_pc = "done" /\ IdsFrom(vs_points, 1) = {}
    /\ ad_points[1] # <<>> => ad_pc[1] # "entry"
    /\ (up_pc = "done" /\ ~up_file.readable) =>
          /\ ~ChunkingStarted
          /\ ad_pc[1] = "returned" /\ ad_documents[1] = <<>> /\ ad_points[1] = <<>>
          /\ IdsFrom(vs_points, 1) = {}
          /\ up_result.success = FALSE
          /\ Contains(up_result.error, "Error extracting text from PDF")
    /\ EmbeddingFailed =>
          /\ IdsFrom(vs_points, 1) = {}
          /\ up_pc = "done" =>
                /\ up_result.success = FALSE
                /\ Contains(up_result.error, "Error adding documents to vector store")
    /\ (up_pc = "done" /\ up_result.success) =>
          up_file.readable /\ ck_pc = "done" /\ ad_pc[1] = "returned"

C11_Witness ==
    /\ up_pc = "done"
    /\ EmbeddingFailed
    /\ Len(ad_documents[1]) >= 3
    /\ up_result.success = FALSE

\* the upload has returned success
UploadSucceeded == up_pc = "done" /\ up_result.success

\* what a successful upload reports and stores
StoresEveryChunk ==
    /\ up_result.documents_processed = Len(ck_chunks)
    /\ up_result.documents_stored = up_result.documents_processed
    /\ Cardinality(IdsFrom(vs_points, 1)) = up_result.documents_stored
    /\ Cardinality(vs_points) = Cardinality(IdsFrom(vs_points, 2)) + up_result.documents_stored

\* C12 as stated: a successful upload stores every chunk, and a text of
\* 3000 characters gives at least 3 chunks.
C12_AnyText3000GivesThreeChunks ==
    UploadSucceeded =>
        /\ StoresEveryChunk
        /\ Len(up_file.text) = 3000 => Len(ck_chunks) >= 3

\* C12: a successful upload stores every chunk it produced: the ids stored
\* are as many as the chunks, and the points of the collection grow by that
\* number; a text whose cleaned form (runs of whitespace collapsed, ends
\* stripped) has 3000 characters gives at least 3 chunks.
C12_CleanText3000GivesThreeChunks ==
    UploadSucceeded =>
        /\ StoresEveryChunk
        /\ Len(ck_text) = 3000 => Len(ck_chunks) >= 3

C12_Witness ==
    /\ UploadSucceeded
    /\ Len(ck_text) = 3000
    /\ up_result.documents_stored = 5
    /\ Cardinality(vs_points) = 5 + MaxDocs

(***************************************************************************)
(* Properties of _ensure_collection_exists and get_collection_info         *)
(***************************************************************************)
\* C13: whatever the interleaving of the instances, no run of
\* _ensure_collection_exists raises an error saying that the collection
\* already exists, a run raises only what an unreachable store raised, and
\* after a run that returned the collection exists.
C13_EnsureCollectionToleratesRace ==
    \A i \in Instances :
        /\ en_pc[i] = "raised" =>
              /\ ~Contains(en_error[i], "already exists")
              /\ en_error[i] = Unreachable
        /\ en_pc[i] = "done" => coll.exists
        /\ en_log[i] = "already exists (handled)" => en_pc[i] # "raised"

C13_Witness ==
    /\ en_pc[1] = "done" /\ en_log[1] = "created"
    /\ en_pc[2] = "done" /\ en_log[2] = "already exists (handled)"
    /\ gi_pc[2] = "idle"

\* C14: a run of _ensure_collection_exists on a collection whose vector
\* size is not the one it asks for does not return silently.
C14_OtherVectorSizeIsReported ==
    \A i \in Instances :
        en_pc[i] = "done" => coll.size = VectorSize

\* C16: get_collection_info does not raise; when the read of the collection
\* fails it calls _ensure_collection_exists once, and returns a dict with
\* name, points_count and status, whose status is "active" when that call
\* returned and "available", not "active", when it raised.
C16_CollectionInfoAlwaysReturns ==
    \A i \in Instances :
        /\ gi_pc[i] \in {"idle", "read", "ensure", "returned"}
        /\ gi_ensures[i] <= 1
        /\ gi_pc[i] = "ensure" => gi_ensures[i] = 1
        /\ gi_pc[i] = "returned" =>
              /\ {"name", "points_count", "status"} \subseteq DOMAIN gi_result[i]
              /\ gi_result[i].name = collection_name
              /\ gi_result[i].points_count \in Nat
              /\ gi_result[i].status \in {"active", "available"}
              /\ gi_result[i].status = "available" <=>
                    (gi_ensures[i] = 1 /\ en_error[i] # "")

C16_Witness ==
    /\ gi_pc[1] = "returned"
    /\ gi_ensures[1] = 1
    /\ gi_result[1].status = "available"
    /\ en_error[1] = Unreachable

(***************************************************************************)
(* Properties of search                                                    *)
(***************************************************************************)
\* C15: a search with top_k <= 0 is not forwarded: it makes no request to
\* the store.
C15_NonPositiveTopKIsNotForwarded ==
    sr_top_k <= 0 => sr_limits = <<>>

(***************************************************************************)
(* Properties of evaluate_response                                         *)
(***************************************************************************)
\* C17: accuracy, relevance, completeness and clarity of the dict
\* evaluate_response returns are integers in 1..5, and four times the
\* overall_score is their sum.
C17_ScoresInRangeAndOverallIsMean ==
    ev_pc = "done" =>
        /\ \A k \in ScoreKeys : ev_result[k] \in 1..5
        /\ 4 * ev_result.overall_score.num =
              (ev_result.accuracy + ev_result.relevance + ev_result.completeness
               + ev_result.clarity) * ev_result.overall_score.den

C17_Witness ==
    /\ ev_pc = "done"
    /\ "error" \notin DOMAIN ev_result
    /\ ev_result.accuracy = 4
    /\ ev_result.relevance = 5
    /\ ev_result.clarity = 5
    /\ ev_result.overall_score.num = 17

\* C18: when the evaluator fails inside, the run of process_query still
\* returns its result, and the evaluation in it is the neutral dict: the four
\* scores 3, overall_score 3, and an error field.
C18_EvaluatorFailureGivesNeutralEvaluation ==
    (pc = "done" /\ calls.evaluator = "failed") =>
        /\ "evaluation" \in DOMAIN result
        /\ ScoreKeys \cup {"overall_score", "error"} \subseteq DOMAIN result.evaluation
        /\ \A k \in ScoreKeys : result.evaluation[k] = 3
        /\ result.evaluation.overall_score = [num |-> 3, den |-> 1]
        /\ result.evaluation.error # ""
        /\ result.response = response

C18_Witness ==
    /\ pc = "done"
    /\ calls.evaluator = "failed"
    /\ query_type = "weather"
    /\ result.evaluation.clarity = 3
    /\ "error" \in DOMAIN result.evaluation

\* C19: for the empty response, whatever the query and the query_type,
\* accuracy, relevance and completeness are 1.
C19_EmptyResponseGetsFloorScores ==
    (ev_pc = "done" /\ ev_response = "" /\ "error" \notin DOMAIN ev_result) =>
        /\ ev_result.accuracy = 1
        /\ ev_result.relevance = 1
        /\ ev_result.completeness = 1

C19_Witness ==
    /\ ev_pc = "done"
    /\ ev_response = ""
    /\ ev_query = "temperature wind humidity in Paris"
    /\ ev_type = "weather"
    /\ "error" \notin DOMAIN ev_result
    /\ ev_result.relevance = 1

(***************************************************************************)
(* Properties of the response generator                                    *)
(***************************************************************************)
\* C20: when the completion call raises in process_rag_query, the text
\* returned lists the first 3 retrieved chunks at most, each cut at 400
\* characters, under "Section" headings, and ends with the note that it is
\* a fallback response.
C20_CompletionFailureGivesFallbackOf400 ==
    (gen_pc = "done" /\ gen_kind = "rag" /\ gen_out.kind = "raise") =>
        /\ Contains(gen_response, "This is a fallback response")
        /\ \A i \in 1..Min(3, Len(gen_context)) :
              Contains(gen_response,
                       "**Section " \o IntText(i) \o ":**\n"
                       \o OuterTruncate(Strip(ReplaceNewlines(
                              Get(gen_context[i], "content", "No content available")))))
        /\ ~Contains(gen_response, "**Section 4:**")

(***************************************************************************)
(* City extraction                                                         *)
(***************************************************************************)
\* the cities of the list that are substrings of the lower-cased query
CitiesIn(query) == {k \in 1..Len(cities) : Contains(Lower(query), cities[k])}

\* the capture of the k-th pattern in the lower-cased query, "" for no match
CaptureOf(query, k) ==
    CASE k = 1 -> CaptureAfter(Lower(query), "weather in ")
      [] k = 2 -> CaptureAfter(Lower(query), "temperature in ")
      [] k = 3 -> CaptureAfter(Lower(query), "forecast for ")
      [] k = 4 -> CaptureBefore(Lower(query), " weather")
      [] k = 5 -> CaptureBefore(Lower(query), " temperature")

PatternsMatching(query) == {k \in 1..5 : CaptureOf(query, k) # ""}

\* C21: a query that holds a city of the list gives a city of the list that
\* it holds, title-cased, whatever the patterns match; a query that holds
\* none gives the title-cased capture of the first pattern that matches; a
\* query that holds no city of the list and matches no pattern gives the
\* empty city.  "What's the weather in Paris?" gives "Paris".
C21_CitiesFirstThenPatternsThenEmpty ==
    ct_pc = "done" =>
        /\ CitiesIn(ct_query) # {} =>
               \E k \in CitiesIn(ct_query) : ct_city = Title(cities[k])
        /\ (CitiesIn(ct_query) = {} /\ PatternsMatching(ct_query) # {}) =>
               \E k \in PatternsMatching(ct_query) :
                   /\ \A m \in PatternsMatching(ct_query) : k <= m
                   /\ ct_city = Title(CaptureOf(ct_query, k))
        /\ (CitiesIn(ct_query) = {} /\ PatternsMatching(ct_query) = {}) => ct_city = ""
        /\ ct_query = "What's the weather in Paris?" => ct_city = "Paris"

\* a query that holds a city of the list and matches a pattern with another
\* word has been answered with the city of the list
C21_Witness ==
    /\ ct_pc = "done"
    /\ ct_query = "oslo_2 weather Paris"
    /\ CaptureOf(ct_query, 4) = "oslo_2"
    /\ ct_city = "Paris"

(***************************************************************************)
(* Properties of the branches of a run                                     *)
(***************************************************************************)
\* the node has run in this run
Ran(node) == \E i \in 1..Len(trace) : trace[i] = node

\* C26: a run takes exactly one of the two retrieval branches and leaves the
\* context of the other as it was: a query typed weather makes no vector
\* search and ends with retrieved_docs = [], a query typed as a document
\* query asks the weather service nothing and ends with weather_data = {},
\* and no stage changes user_query.
C26_OneBranchRunsTheOtherIsLeftAlone ==
    /\ [](/\ query_type = "weather" =>
                /\ ~Ran("get_rag_response") /\ calls.search = "none"
                /\ retrieved_docs = <<>>
                /\ pc = "done" => result.retrieved_docs = <<>>
          /\ query_type = "rag" =>
                /\ ~Ran("get_weather") /\ calls.weather = "none" /\ calls.city = ""
                /\ weather_data = <<>>
                /\ pc = "done" => result.weather_data = <<>>
          /\ Ran("generate_response") => (Ran("get_weather") # Ran("get_rag_response"))
          /\ pc = "done" => result.query = user_query)
    /\ [][user_query' = user_query]_vars

\* a weather run that fetched a snapshot and a document run that retrieved
\* documents have both finished; each state is one run, so the witness is the
\* weather run
C26_Witness ==
    /\ pc = "done" /\ query_type = "weather"
    /\ calls.weather = "ok" /\ "city" \in DOMAIN result.weather_data
    /\ result.retrieved_docs = <<>>

\* C27: when weather_data holds the key error (weather query) or
\* retrieved_docs is empty (document query), the generate stage returns its
\* fixed message and makes no completion call; in every other case it makes
\* exactly one.
C27_NoCompletionCallOnDegradedContext ==
    /\ ~Ran("generate_response") => calls.completions = 0
    /\ Ran("generate_response") =>
          IF query_type = "weather" /\ "error" \in DOMAIN weather_data
          THEN /\ calls.completions = 0 /\ calls.completion = "none"
               /\ response = "Sorry, I couldn't get weather information: " \o weather_data.error
          ELSE IF query_type = "rag" /\ retrieved_docs = <<>>
          THEN /\ calls.completions = 0 /\ calls.completion = "none"
               /\ response = UploadFirst
          ELSE calls.completions = 1 /\ calls.completion \in {"ok", "raise"}

C27_Witness ==
    /\ pc = "done" /\ query_type = "weather"
    /\ calls.weather = "failed" /\ "error" \in DOMAIN weather_data
    /\ calls.completions = 0
    /\ Contains(response, "Sorry, I couldn't get weather information: ")

(***************************************************************************)
(* The default city and the air-quality queries                            *)
(***************************************************************************)
\* C29: when the extraction gives no city, the city the weather service is
\* asked for is London; it is never the default "delhi", every city of the
\* Indian table being a city of the extraction list.
C29_DefaultCityIsLondon ==
    /\ \A k \in 1..Len(indian_cities) : \E m \in 1..Len(cities) : cities[m] = indian_cities[k]
    /\ calls.city # "delhi"
    /\ (Ran("get_weather") /\ ExtractCityFromQuery(user_query) = "") => calls.city = "London"

C29_Witness ==
    /\ pc = "done" /\ user_query = "rain?"
    /\ ExtractCityFromQuery(user_query) = ""
    /\ calls.city = "London" /\ calls.weather = "ok"

\* the query is an air-quality query and the city the weather service was
\* asked for is outside the Indian table
AqiOutsideTable ==
    /\ Ran("get_weather") /\ IsAqiQuery(user_query)
    /\ ~IsIndianCity(Lower(calls.city))

\* C30: for an air-quality query whose city, extracted or default, is not in
\* the Indian table, no request is made to the weather API, weather_data
\* holds an error, and the response is the apology; an air-quality query in
\* which no city is recognised ends with that apology, for London.
C30_AqiOutsideTableEndsInApology ==
    /\ AqiOutsideTable =>
          /\ calls.weather = "none"
          /\ "error" \in DOMAIN weather_data
          /\ Ran("generate_response") =>
                /\ IsPrefix("Sorry, I couldn't get weather information: ", response)
                /\ calls.completions = 0
          /\ pc = "done" => result.response = response
    /\ (pc = "done" /\ IsAqiQuery(user_query) /\ ExtractCityFromQuery(user_query) = "") =>
          result.response = "Sorry, I couldn't get weather information: "
                            \o "City London not found in Indian cities database"

C30_Witness ==
    /\ pc = "done" /\ user_query = "Pollution today"
    /\ AqiOutsideTable /\ calls.city = "London"
    /\ IsPrefix("Sorry, I couldn't get weather information: ", result.response)

(***************************************************************************)
(* The rules of the four scores and of the feedback                        *)
(***************************************************************************)
\* evaluate_response has returned the dict of its try branch
Evaluated == ev_pc = "done" /\ "error" \notin DOMAIN ev_result

\* the response holds one of the words, in any letter case
Mentions(words) == \E w \in words : Contains(Lower(ev_response), w)

\* the accuracy by the ordered rules, for a response that counts as empty
\* when `empty` holds and with `label` as the type of a document query
AccuracyByRules(empty, label) ==
    IF empty THEN 1
    ELSE IF Mentions({"error", "failed", "unavailable", "limitation"}) THEN 2
    ELSE IF ev_type = "weather"
         THEN (IF Mentions({"temperature", "humidity", "wind", "pressure", "^c", "^f"})
               THEN 4 ELSE 3)
    ELSE IF ev_type = label
         THEN (IF Mentions({"document", "chunk"}) THEN 4 ELSE 3)
    ELSE 3

\* C23 as stated: accuracy is 1 for the empty response; else 2 when the
\* response holds a failure word; else, for the type weather, 4 when it
\* holds a weather-metric term and 3 when not; for the type document, 4
\* when it holds "document" or "chunk" and 3 when not; 3 for another type.
C23_AccuracyRulesForTypeDocument ==
    Evaluated => ev_result.accuracy = AccuracyByRules(ev_response = "", "document")

\* C23, amended: the first rule gives 1 to a response that is empty or holds
\* white space only, and the rule of the document queries is that of the
\* type rag; the type document falls under "another type".
C23_AccuracyRulesForTypeRag ==
    Evaluated => ev_result.accuracy = AccuracyByRules(Strip(ev_response) = "", "rag")

\* a weather response with a failure word and a weather-metric term got 2
C23_Witness ==
    /\ Evaluated /\ ev_type = "weather"
    /\ ev_response = "Temperature unavailable"
    /\ ev_result.accuracy = 2

\* the sub-scores in the order of the feedback, with their advisories
Advisories ==
    <<[key |-> "accuracy",     text |-> "@@ Response accuracy could be improved"],
      [key |-> "relevance",    text |-> "@@ Response could be more relevant to the query"],
      [key |-> "completeness", text |-> "@@ Response could be more comprehensive"],
      [key |-> "clarity",      text |-> "@@ Response could be clearer and better formatted"]>>

\* the number of sub-scores below 3 among the first n
LowAmong(n) == Cardinality({k \in 1..n : ev_result[Advisories[k].key] < 3})

\* the verdict of the band of overall_score, which is sum / 4
Verdict ==
    LET sum == ev_result.accuracy + ev_result.relevance
               + ev_result.completeness + ev_result.clarity
    IN  IF sum >= 16 THEN "@ Excellent response quality"
        ELSE IF sum >= 12 THEN "@ Good response quality"
        ELSE "@@ Response quality needs improvement"

\* C24: the feedback holds the advisory of each sub-score below 3, in the
\* order accuracy, relevance, completeness, clarity, none for a sub-score
\* of 3 or more, and then one verdict, by the band of overall_score; it is
\* never empty and its last element is the verdict.
C24_FeedbackIsAdvisoriesThenOneVerdict ==
    Evaluated =>
        LET feedback == ev_result.feedback
        IN  /\ Len(feedback) = LowAmong(4) + 1
            /\ \A k \in 1..4 :
                  ev_result[Advisories[k].key] < 3 =>
                      feedback[LowAmong(k)] = Advisories[k].text
            /\ feedback[Len(feedback)] = Verdict
            /\ ev_result.overall_score.num = 4 * ev_result.overall_score.den =>
                  Verdict = "@ Excellent response quality"

\* a response with two sub-scores below 3 and two not: two advisories, then
\* the verdict
C24_Witness ==
    /\ Evaluated
    /\ ev_result.accuracy = 2 /\ ev_result.relevance >= 3
    /\ ev_result.completeness = 2 /\ ev_result.clarity >= 3
    /\ Len(ev_result.feedback) = 3

\* 3 and one point for each of: a heading marker, a list marker, a blank
\* line, 5 at most
ClarityByMarkers ==
    LET h == IF \E m \in {"#", "**"} : Contains(ev_response, m) THEN 1 ELSE 0
        l == IF \E m \in {"~", "-", "*", "1.", "2."} : Contains(ev_response, m) THEN 1 ELSE 0
        p == IF Contains(ev_response, "\n\n") THEN 1 ELSE 0
    IN  IF 3 + h + l + p > 5 THEN 5 ELSE 3 + h + l + p

\* C25 as stated: for every response, clarity = min(5, 3 + h + l + p).
C25_ClarityOfEveryResponse ==
    Evaluated => ev_result.clarity = ClarityByMarkers

\* C25, amended: so for every response that is not empty; the empty
\* response has clarity 1.  A response with a heading, a list and a blank
\* line has clarity 5.
C25_ClarityOfNonEmptyResponse ==
    Evaluated =>
        /\ ev_response # "" => ev_result.clarity = ClarityByMarkers
        /\ ev_response = "" => ev_result.clarity = 1

C25_Witness ==
    /\ Evaluated
    /\ Contains(ev_response, "#") /\ Contains(ev_response, "- ")
    /\ Contains(ev_response, "\n\n")
    /\ ev_result.clarity = 5

(***************************************************************************)
(* The loop of chunk_text with an overlap of half the chunk size at most   *)
(***************************************************************************)
\* C28: whenever overlap <= chunk_size // 2, start is never negative and
\* every iteration leaves it greater than it was, so the loop makes
\* len(text) iterations at most, text being the cleaned text, and every
\* chunk is non-empty and chunk_size characters long at most.
C28_SmallOverlapAdvancesTheWindow ==
    ck_overlap <= ck_size \div 2 =>
        /\ ck_start >= 0
        /\ \A earlier \in ck_seen : earlier < ck_start
        /\ ~ChunkTextRunsForever
        /\ Cardinality(ck_seen) <= Len(ck_text)
        /\ \A i \in 1..Len(ck_chunks) :
              ck_chunks[i] # "" /\ Len(ck_chunks[i]) <= ck_size

\* a call with a positive overlap that made three iterations, one of which
\* ended its window after a period
C28_Witness ==
    /\ ck_pc = "done"
    /\ ck_overlap >= 1 /\ ck_overlap <= ck_size \div 2
    /\ Cardinality(ck_seen) >= 3
    /\ \E s \in ck_seen :
          WindowEnd(ck_text, s, ck_size) < s + ck_size

(***************************************************************************)
(* Independence of the runs on one instance                                *)
(***************************************************************************)
\* C22: whatever the interleaving of the stages of the runs has been, and
\* whatever the uploads did to the collection meanwhile, once the runs have
\* returned the result of each run
\* (query, query_type, the context weather_data and retrieved_docs,
\* response, evaluation) is the result the same call gives alone when the
\* external services answer it as they did.
C22_RunsAreIndependent ==
    (\A r \in Runs : rn_pc[r] = "done") =>
        \A r \in Runs : rn_result[r] = Alone(rn_query[r], rn_heard[r])

\* two runs with different queries, of which the first started first and
\* returned last, the collection having grown between their searches or
\* before them
C22_Witness ==
    /\ \A r \in Runs : rn_pc[r] = "done"
    /\ rn_query[1] = "mumbai news" /\ rn_query[2] = "rain?"
    /\ rn_result[1].query_type = "rag" /\ rn_result[2].query_type = "weather"
    /\ rn_result[1].retrieved_docs # <<>>
    /\ rn_heard[1]["generate_response"].kind = "raise"
    /\ rn_heard[2]["generate_response"].kind = "ok"

=========================================================================
